---------------------------- MODULE Spec2Model ----------------------------
(***************************************************************************)
(* Billing core of stripe-elements-backend: the fee price registry          *)
(* (get-or-create against the external price catalog), the coupon resolver  *)
(* with its in-process cache, and the one-time amount breakdown.            *)
(*                                                                          *)
(* Every async function is cut at its await points: one action per          *)
(* synchronous stretch of code.  The external service answers a request at  *)
(* the moment the awaiting stretch resumes; the stretches of concurrent     *)
(* requests interleave freely, as on the Node.js event loop.                *)
(***************************************************************************)
EXTENDS Integers, Sequences, FiniteSets, TLC

VARIABLES
    catalog,        \* external price catalog: prices, most recently created first
    nextPriceId,    \* external price catalog: identifier of the next created price
    fee,            \* fee[r]: the fee-price registry call made by caller r
    feeObs,         \* feeObs[r]: what was observed of that call (history)
    couponCache,    \* the module's Map from coupon id to the coupon retrieved
    coupons,        \* external coupon catalog: coupon id -> coupon, if it exists
    cpn,            \* cpn[r]: the findCouponDetails call made by caller r
    cpnObs,         \* cpnObs[r]: what was observed of that call (history)
    cpnHist,        \* retrievals and catalog edits so far, per coupon id (history)
    bdLast,         \* the last call of computeOneTimeBreakdown: options and result
    bdPrev,         \* the call before it, when the last one repeats it (history)
    bdShip,         \* the call before it, when the last one repeats it with
                    \* another shippingAmount (history)
    tzLast,         \* the last call of inferTimezoneFromAddress: address, result
    dtLast,         \* the last call of isDateWithinNextTwoMonths: value, clock
                    \* reading, result
    rt,             \* the checkout request being served, at one of its awaits
    rtServed        \* number of checkout requests received so far

feeVars == <<catalog, nextPriceId, fee, feeObs>>
cpnVars == <<couponCache, coupons, cpn, cpnObs, cpnHist>>
bdVars == <<bdLast, bdPrev, bdShip>>
vars == <<catalog, nextPriceId, fee, feeObs, couponCache, coupons, cpn, cpnObs,
          cpnHist, bdLast, bdPrev, bdShip, tzLast, dtLast, rt, rtServed>>
tzVars == <<tzLast>>
dtVars == <<dtLast>>
rtVars == <<rt, rtServed>>
notFeeVars == <<cpnVars, bdVars, tzVars, dtVars, rtVars>>
notCpnVars == <<feeVars, bdVars, tzVars, dtVars, rtVars>>
notBdVars == <<feeVars, cpnVars, tzVars, dtVars, rtVars>>
notTzVars == <<feeVars, cpnVars, bdVars, dtVars, rtVars>>
notDtVars == <<feeVars, cpnVars, bdVars, tzVars, rtVars>>
\* what the checkout routes leave alone: the call records of the callers of
\* the other specifications, and the other modules
notRtVars == <<fee, feeObs, cpn, cpnObs, cpnHist, bdVars, tzVars, dtVars>>

\* An optional value (undefined, null or absent, or a value) is a sequence of
\* length at most one.
None == <<>>
Some(x) == <<x>>
\* x ?? d
Default(x, d) == IF x = None THEN d ELSE x[1]

\* the first operand, whatever the second
FirstOperand(a, b) == a
Min(a, b) == IF a <= b THEN a ELSE b
Max(a, b) == IF a >= b THEN a ELSE b

-----------------------------------------------------------------------------
(* Bounds *)

\* number of calls a caller makes: its call, then repeats of the same call
MaxCalls == 2
\* fee amounts requested range over -1 .. MaxAmount
MaxAmount == 2
\* number of edits made to the external coupon catalog while the process runs
MaxEdits == 1
\* base amounts and flat discounts of a breakdown are multiples of 25 up to
\* 25 * MaxBase (flat discounts one step further)
MaxBase == 4
\* number of checkout requests the process serves
MaxServed == 2

\* two callers, whose calls interleave at the awaits
Requests == {1, 2}
Amounts == (0 - 1)..MaxAmount

-----------------------------------------------------------------------------
(* Configuration: src/src/config/env.ts, src/src/config/pricing.ts *)

BASE_CURRENCY == "usd"
CREDIT_CARD_FEE_PRODUCT_ID == "prod_fee"
\* limit of stripe.prices.list in both registry variants
PriceListLimit == 100
\* defaults of ONE_TIME_BASE_AMOUNT, SHIPPING_COST and CREDIT_CARD_FEE_PERCENT
ONE_TIME_BASE_AMOUNT_CENTS == 5000
SHIPPING_COST_CENTS == 0
CREDIT_CARD_FEE_PERCENT == 3

-----------------------------------------------------------------------------
(* External price catalog (Stripe): list and create *)

Price(id, product, active, currency, amount, recurring) ==
    [id |-> id, product |-> product, active |-> active, currency |-> currency,
     unit_amount |-> amount, recurring |-> recurring]

Recurring(interval, count) ==
    Some([interval |-> interval, interval_count |-> count])

\* n active fee prices of amounts no request asks for, ids 1001..1000+n
RECURSIVE Filler(_)
Filler(n) ==
    IF n = 0 THEN <<>>
    ELSE <<Price(1000 + n, CREDIT_CARD_FEE_PRODUCT_ID, TRUE, BASE_CURRENCY,
                 1000 + n, Recurring("month", 1))>> \o Filler(n - 1)

\* older entries of the catalog, newest first
SeedPrices ==
    << Price(1, CREDIT_CARD_FEE_PRODUCT_ID, TRUE, BASE_CURRENCY, 1, Recurring("month", 1)),
       Price(2, CREDIT_CARD_FEE_PRODUCT_ID, TRUE, BASE_CURRENCY, 1, None),
       Price(3, CREDIT_CARD_FEE_PRODUCT_ID, TRUE, "eur", 2, None),
       Price(4, "prod_other", TRUE, BASE_CURRENCY, 2, Recurring("month", 1)),
       Price(5, CREDIT_CARD_FEE_PRODUCT_ID, FALSE, BASE_CURRENCY, 2, Recurring("year", 1)) >>

\* catalogs the process may find: the seeds behind 0, limit-1 or limit newer prices
InitialCatalogs ==
    { Filler(n) \o SeedPrices : n \in {0, PriceListLimit - 1, PriceListLimit} }

\* the list call answered with every page instead of the first
ListActivePricesAllPages(cat, product, currency, limit) ==
    SelectSeq(cat, LAMBDA pr : /\ pr.product = product
                               /\ pr.active
                               /\ (currency = None \/ Some(pr.currency) = currency))

\* stripe.prices.list({product, active: true, limit[, currency]}): one page, the
\* most recently created prices first
ListActivePrices(cat, product, currency, limit) ==
    LET all == SelectSeq(cat, LAMBDA pr : /\ pr.product = product
                                          /\ pr.active
                                          /\ (currency = None \/ Some(pr.currency) = currency))
    IN  SubSeq(all, 1, Min(limit, Len(all)))

\* the scan keeping the last element that passes the test
FindLast(passing) ==
    IF passing = <<>> THEN None ELSE Some(passing[Len(passing)])

\* Array.prototype.find: the first of the elements passing the test (passing,
\* in the array's order), else undefined
Find(passing) ==
    IF passing = <<>> THEN None ELSE Some(passing[1])

-----------------------------------------------------------------------------
(* Fee Price Registry: src/src/services/stripeHelpers.ts *)

\* requested recurrence shapes: {interval, intervalCount?}
RecurringParams ==
    { [interval |-> "month", intervalCount |-> None],
      [interval |-> "month", intervalCount |-> Some(1)],
      [interval |-> "month", intervalCount |-> Some(2)],
      [interval |-> "year",  intervalCount |-> None] }

IdleCall ==
    [pc |-> "idle", calls |-> 0, kind |-> "none", feeAmountCents |-> 0,
     recurring |-> None, result |-> None, error |-> None]

NoObs ==
    [listCalls |-> 0, createCalls |-> 0, returned |-> {}, prior |-> {},
     priorOnPage |-> {}, pageMatches |-> <<>>, beyondPage |-> FALSE,
     raced |-> FALSE]

\* the amount guard letting zero through
AmountRejectedBelowZero(feeAmountCents) == feeAmountCents < 0

\* if (feeAmountCents <= 0) throw new Error("Fee amount must be greater than 0")
AmountRejected(feeAmountCents) == feeAmountCents <= 0

InvalidAmount == "Fee amount must be greater than 0"

\* the recurring test without the interval_count comparison
RecurringPriceMatchesAnyCount(price, feeAmountCents, recurring) ==
    /\ price.currency = BASE_CURRENCY
    /\ price.unit_amount = feeAmountCents
    /\ price.recurring # None
    /\ price.recurring[1].interval = recurring.interval

\* the test of existingPrices.data.find in getOrCreateCreditCardFeePrice
RecurringPriceMatches(price, feeAmountCents, recurring) ==
    /\ price.currency = BASE_CURRENCY
    /\ price.unit_amount = feeAmountCents
    /\ price.recurring # None
    /\ price.recurring[1].interval = recurring.interval
    /\ price.recurring[1].interval_count = Default(recurring.intervalCount, 1)

\* the test of existingPrices.data.find in getOrCreateOneTimeCreditCardFeePrice
OneTimePriceMatches(price, feeAmountCents) ==
    /\ price.currency = BASE_CURRENCY
    /\ price.unit_amount = feeAmountCents
    /\ price.recurring = None

\* stripe.prices.create(params): the catalog gains the price, newest first
CreatePrice(currency, amount, recurring) ==
    /\ catalog' = <<Price(nextPriceId, CREDIT_CARD_FEE_PRODUCT_ID, TRUE,
                          currency, amount, recurring)>> \o catalog
    /\ nextPriceId' = nextPriceId + 1

\* The fee key a request asks for and the fee key of a catalog price
\* (currency, unit amount, recurrence shape), as the specification defines it.
KeyOfRequest(kind, amount, recurring) ==
    [currency |-> BASE_CURRENCY, amount |-> amount,
     shape |-> IF kind = "one_time" THEN None
               ELSE Recurring(recurring[1].interval,
                              IF recurring[1].intervalCount = None THEN 1
                              ELSE recurring[1].intervalCount[1])]

KeyOfCall(r) == KeyOfRequest(fee[r].kind, fee[r].feeAmountCents, fee[r].recurring)

KeyOfPrice(price) ==
    [currency |-> price.currency, amount |-> price.unit_amount,
     shape |-> price.recurring]

\* the active prices of the fee product a variant's list call ranges over
ListedBy(kind, cat) ==
    SelectSeq(cat, LAMBDA pr : /\ pr.product = CREDIT_CARD_FEE_PRODUCT_ID
                               /\ pr.active
                               /\ (kind = "one_time" => pr.currency = BASE_CURRENCY))

IdsMatching(s, key) ==
    LET m == SelectSeq(s, LAMBDA pr : KeyOfPrice(pr) = key)
    IN  [i \in 1..Len(m) |-> m[i].id]

Range(s) == {s[i] : i \in 1..Len(s)}

\* Caller r makes a call: its first (callers are numbered in the order of their
\* first calls), or, its last call over, the same call again.
Arrives(r, kind, feeAmountCents, recurring) ==
    /\ fee[r].calls < MaxCalls
    /\ \/ /\ fee[r].pc = "idle"
          /\ \A q \in Requests : q < r => fee[q].pc # "idle"
       \/ /\ fee[r].pc \in {"done", "failed"}
          /\ fee[r].kind = kind
          /\ fee[r].feeAmountCents = feeAmountCents
          /\ fee[r].recurring = recurring

\* identifiers returned, before a call starts, by completed calls for the same key
PriorResults(kind, amount, recurring) ==
    UNION { feeObs[q].returned : q \in { x \in Requests :
          /\ fee[x].kind # "none"
          /\ KeyOfCall(x) = KeyOfRequest(kind, amount, recurring) } }

\* the observations of a call that starts by listing
ObserveStart(r, kind, amount, recurring) ==
    [NoObs EXCEPT !.listCalls = 1, !.returned = feeObs[r].returned,
                  !.prior = PriorResults(kind, amount, recurring)]

\* the observations of a call that returns id
ObserveReturn(obs, id) == [obs EXCEPT !.returned = obs.returned \cup {id}]

\* what the list call of r saw, by the specification's definition of the key
ObserveList(r) ==
    LET all   == ListedBy(fee[r].kind, catalog)
        page  == SubSeq(all, 1, Min(PriceListLimit, Len(all)))
        rest  == SubSeq(all, Len(page) + 1, Len(all))
        onPg  == IdsMatching(page, KeyOfCall(r))
    IN  [feeObs[r] EXCEPT !.pageMatches = onPg,
                          !.priorOnPage = feeObs[r].prior \cap Range(onPg),
                          !.beyondPage = IdsMatching(rest, KeyOfCall(r)) # <<>>,
                          !.raced = \E q \in Requests \ {r} :
                                        /\ fee[q].pc = "await_create"
                                        /\ KeyOfCall(q) = KeyOfCall(r)]

\* getOrCreateCreditCardFeePrice, up to the await of stripe.prices.list
GetOrCreateCreditCardFeePrice(r, feeAmountCents, recurring) ==
    /\ Arrives(r, "recurring", feeAmountCents, Some(recurring))
    /\ IF AmountRejected(feeAmountCents)
       THEN /\ fee' = [fee EXCEPT ![r] =
                  [IdleCall EXCEPT !.pc = "failed", !.calls = fee[r].calls + 1,
                                   !.kind = "recurring",
                                   !.feeAmountCents = feeAmountCents,
                                   !.recurring = Some(recurring),
                                   !.error = Some(InvalidAmount)]]
            /\ feeObs' = [feeObs EXCEPT ![r] = NoObs]
       ELSE /\ fee' = [fee EXCEPT ![r] =
                  [IdleCall EXCEPT !.pc = "await_list", !.calls = fee[r].calls + 1,
                                   !.kind = "recurring",
                                   !.feeAmountCents = feeAmountCents,
                                   !.recurring = Some(recurring)]]
            /\ feeObs' = [feeObs EXCEPT ![r] =
                  ObserveStart(r, "recurring", feeAmountCents, Some(recurring))]
    /\ UNCHANGED <<catalog, nextPriceId>>
    /\ UNCHANGED notFeeVars

\* the list step creating a price whatever the page holds
RecurringPricesListedNoLookup(r) ==
    /\ fee[r].pc = "await_list"
    /\ fee[r].kind = "recurring"
    /\ feeObs' = [feeObs EXCEPT ![r] = [ObserveList(r) EXCEPT !.createCalls = 1]]
    /\ fee' = [fee EXCEPT ![r].pc = "await_create"]
    /\ UNCHANGED <<catalog, nextPriceId>>
    /\ UNCHANGED notFeeVars

\* getOrCreateCreditCardFeePrice, from the list's answer to the return of the
\* matching price or the await of stripe.prices.create
RecurringPricesListed(r) ==
    /\ fee[r].pc = "await_list"
    /\ fee[r].kind = "recurring"
    /\ LET existingPrices == ListActivePrices(catalog, CREDIT_CARD_FEE_PRODUCT_ID,
                                              None, PriceListLimit)
           matchingPrice == Find(SelectSeq(existingPrices,
                LAMBDA price : RecurringPriceMatches(price, fee[r].feeAmountCents,
                                                     fee[r].recurring[1])))
       IN  IF matchingPrice # None
           THEN /\ fee' = [fee EXCEPT ![r].pc = "done",
                                      ![r].result = Some(matchingPrice[1].id)]
                /\ feeObs' = [feeObs EXCEPT ![r] =
                                 ObserveReturn(ObserveList(r), matchingPrice[1].id)]
           ELSE /\ fee' = [fee EXCEPT ![r].pc = "await_create"]
                /\ feeObs' = [feeObs EXCEPT ![r] =
                                 [ObserveList(r) EXCEPT !.createCalls = 1]]
    /\ UNCHANGED <<catalog, nextPriceId>>
    /\ UNCHANGED notFeeVars

\* getOrCreateCreditCardFeePrice, from the create's answer to the return
RecurringPriceCreated(r) ==
    /\ fee[r].pc = "await_create"
    /\ fee[r].kind = "recurring"
    /\ CreatePrice(BASE_CURRENCY, fee[r].feeAmountCents,
                   Recurring(fee[r].recurring[1].interval,
                             Default(fee[r].recurring[1].intervalCount, 1)))
    /\ fee' = [fee EXCEPT ![r].pc = "done", ![r].result = Some(nextPriceId)]
    /\ feeObs' = [feeObs EXCEPT ![r] = ObserveReturn(feeObs[r], nextPriceId)]
    /\ UNCHANGED notFeeVars

\* getOrCreateOneTimeCreditCardFeePrice, up to the await of stripe.prices.list
GetOrCreateOneTimeCreditCardFeePrice(r, feeAmountCents) ==
    /\ Arrives(r, "one_time", feeAmountCents, None)
    /\ IF AmountRejected(feeAmountCents)
       THEN /\ fee' = [fee EXCEPT ![r] =
                  [IdleCall EXCEPT !.pc = "failed", !.calls = fee[r].calls + 1,
                                   !.kind = "one_time",
                                   !.feeAmountCents = feeAmountCents,
                                   !.error = Some(InvalidAmount)]]
            /\ feeObs' = [feeObs EXCEPT ![r] = NoObs]
       ELSE /\ fee' = [fee EXCEPT ![r] =
                  [IdleCall EXCEPT !.pc = "await_list", !.calls = fee[r].calls + 1,
                                   !.kind = "one_time",
                                   !.feeAmountCents = feeAmountCents]]
            /\ feeObs' = [feeObs EXCEPT ![r] =
                  ObserveStart(r, "one_time", feeAmountCents, None)]
    /\ UNCHANGED <<catalog, nextPriceId>>
    /\ UNCHANGED notFeeVars

\* getOrCreateOneTimeCreditCardFeePrice, from the list's answer to the return of
\* the matching price or the await of stripe.prices.create
OneTimePricesListed(r) ==
    /\ fee[r].pc = "await_list"
    /\ fee[r].kind = "one_time"
    /\ LET existingPrices == ListActivePrices(catalog, CREDIT_CARD_FEE_PRODUCT_ID,
                                              Some(BASE_CURRENCY), PriceListLimit)
           matchingPrice == Find(SelectSeq(existingPrices,
                LAMBDA price : OneTimePriceMatches(price, fee[r].feeAmountCents)))
       IN  IF matchingPrice # None
           THEN /\ fee' = [fee EXCEPT ![r].pc = "done",
                                      ![r].result = Some(matchingPrice[1].id)]
                /\ feeObs' = [feeObs EXCEPT ![r] =
                                 ObserveReturn(ObserveList(r), matchingPrice[1].id)]
           ELSE /\ fee' = [fee EXCEPT ![r].pc = "await_create"]
                /\ feeObs' = [feeObs EXCEPT ![r] =
                                 [ObserveList(r) EXCEPT !.createCalls = 1]]
    /\ UNCHANGED <<catalog, nextPriceId>>
    /\ UNCHANGED notFeeVars

\* the create step looking the catalog up once more and creating only if the key
\* is still absent
OneTimePriceCreatedIfAbsent(r) ==
    /\ fee[r].pc = "await_create"
    /\ fee[r].kind = "one_time"
    /\ LET again == Find(SelectSeq(
                ListActivePrices(catalog, CREDIT_CARD_FEE_PRODUCT_ID,
                                 Some(BASE_CURRENCY), PriceListLimit),
                LAMBDA price : OneTimePriceMatches(price, fee[r].feeAmountCents)))
       IN  IF again # None
           THEN /\ fee' = [fee EXCEPT ![r].pc = "done", ![r].result = Some(again[1].id)]
                /\ feeObs' = [feeObs EXCEPT ![r] = ObserveReturn(feeObs[r], again[1].id)]
                /\ UNCHANGED <<catalog, nextPriceId>>
           ELSE /\ CreatePrice(BASE_CURRENCY, fee[r].feeAmountCents, None)
                /\ fee' = [fee EXCEPT ![r].pc = "done", ![r].result = Some(nextPriceId)]
                /\ feeObs' = [feeObs EXCEPT ![r] = ObserveReturn(feeObs[r], nextPriceId)]
    /\ UNCHANGED notFeeVars

\* getOrCreateOneTimeCreditCardFeePrice, from the create's answer to the return
OneTimePriceCreated(r) ==
    /\ fee[r].pc = "await_create"
    /\ fee[r].kind = "one_time"
    /\ CreatePrice(BASE_CURRENCY, fee[r].feeAmountCents, None)
    /\ fee' = [fee EXCEPT ![r].pc = "done", ![r].result = Some(nextPriceId)]
    /\ feeObs' = [feeObs EXCEPT ![r] = ObserveReturn(feeObs[r], nextPriceId)]
    /\ UNCHANGED notFeeVars

-----------------------------------------------------------------------------
(* Strings, as sequences of one-character strings *)

UpperCaseLetters ==
    <<"A", "B", "C", "D", "E", "F", "G", "H", "I", "J", "K", "L", "M",
      "N", "O", "P", "Q", "R", "S", "T", "U", "V", "W", "X", "Y", "Z">>
LowerCaseLetters ==
    <<"a", "b", "c", "d", "e", "f", "g", "h", "i", "j", "k", "l", "m",
      "n", "o", "p", "q", "r", "s", "t", "u", "v", "w", "x", "y", "z">>

\* String.prototype.toLowerCase
ToLowerCase(str) ==
    [i \in 1..Len(str) |->
        IF \E k \in 1..26 : UpperCaseLetters[k] = str[i]
        THEN LowerCaseLetters[CHOOSE k \in 1..26 : UpperCaseLetters[k] = str[i]]
        ELSE str[i]]

IsWhiteSpace(c) == c \in {" ", "\t", "\n"}

RECURSIVE TrimStart(_)
TrimStart(str) ==
    IF str # <<>> /\ IsWhiteSpace(Head(str)) THEN TrimStart(Tail(str)) ELSE str

RECURSIVE TrimEnd(_)
TrimEnd(str) ==
    IF str # <<>> /\ IsWhiteSpace(str[Len(str)])
    THEN TrimEnd(SubSeq(str, 1, Len(str) - 1)) ELSE str

\* String.prototype.trim
Trim(str) == TrimEnd(TrimStart(str))

-----------------------------------------------------------------------------
(* Coupon Resolver: src/src/config/env.ts, src/src/config/pricing.ts,       *)
(* src/src/services/stripeHelpers.ts                                        *)

\* env.couponMappings for COUPON_CODES = "vip:cpn_A|save:cpn_A|flat:cpn_B": a
\* plain object ({} filled by reduce), its keys lower-cased
couponMappings ==
    (<<"v", "i", "p">> :> "cpn_A") @@ (<<"s", "a", "v", "e">> :> "cpn_A")
        @@ (<<"f", "l", "a", "t">> :> "cpn_B")

CouponIds == {"cpn_A", "cpn_B"}

\* The all-lower-case property names every plain object inherits from
\* Object.prototype; obj[name] yields the inherited member, not undefined.
ObjectPrototypeKeys ==
    { <<"c", "o", "n", "s", "t", "r", "u", "c", "t", "o", "r">>,
      <<"_", "_", "p", "r", "o", "t", "o", "_", "_">> }
InheritedMember == "[inherited member of Object.prototype]"

\* the lookup reading own properties only
OwnPropertyLookup(obj, key) ==
    IF key \in DOMAIN obj THEN Some(obj[key]) ELSE None

\* obj[key] on a plain object: an own property, else an inherited one, else
\* undefined
PropertyLookup(obj, key) ==
    IF key \in DOMAIN obj THEN Some(obj[key])
    ELSE IF key \in ObjectPrototypeKeys THEN Some(InheritedMember)
    ELSE None

\* !code for code: string | null | undefined
IsFalsyString(code) == code = None \/ code[1] = <<>>

\* getCouponIdForCode
GetCouponIdForCode(code) ==
    IF IsFalsyString(code) THEN None
    ELSE LET normalized == ToLowerCase(Trim(code[1]))
         IN  IF Len(normalized) = 0 THEN None
             ELSE PropertyLookup(couponMappings, normalized)

\* the coupon codes callers send
CouponCodes ==
    { None,
      Some(<<>>),
      Some(<<" ", " ">>),
      Some(<<"v", "i", "p">>),
      Some(<<" ", "V", "i", "P", " ">>),
      Some(<<"S", "A", "V", "E">>),
      Some(<<"f", "l", "a", "t">>),
      Some(<<"n", "o", "p", "e">>),
      Some(<<"c", "o", "n", "s", "t", "r", "u", "c", "t", "o", "r">>) }

Coupon(percent, amount, currency) ==
    [percent_off |-> percent, amount_off |-> amount, currency |-> currency]

\* what a coupon of the external catalog may be, or be edited to
CouponShapes ==
    { Coupon(Some(10), None, None),
      Coupon(Some(20), None, None),
      Coupon(None, Some(5), Some(BASE_CURRENCY)) }

\* stripe.coupons.retrieve(couponId): the coupon, or nothing (the call rejects)
\* when the catalog has no coupon of that id
RetrieveCoupon(couponId) ==
    IF couponId \in DOMAIN coupons THEN coupons[couponId] ELSE None

\* the retrieved coupon dropped instead of cached
CacheSetDropped(cache, couponId, coupon) == cache

\* couponCache.set(couponId, coupon)
CacheSet(cache, couponId, coupon) ==
    [k \in DOMAIN cache \cup {couponId} |->
        IF k = couponId THEN coupon ELSE cache[k]]

\* the cache never consulted
CacheHasNever(cache, couponId) == FALSE

\* couponCache.has(couponId)
CacheHas(cache, couponId) == couponId \in DOMAIN cache

\* the CouponDetails built from a coupon
CouponDetails(couponId, coupon) ==
    [couponId |-> couponId, percentOff |-> coupon.percent_off,
     amountOff |-> coupon.amount_off, currency |-> coupon.currency]

IdleCouponCall ==
    [pc |-> "idle", calls |-> 0, couponCode |-> None, couponId |-> None,
     result |-> None, error |-> None]

NoCouponObs ==
    [reads |-> 0, cacheWrites |-> 0, fetchedAtStart |-> FALSE, version |-> 0,
     afterFailure |-> FALSE]

HistAtStart ==
    [retrieves |-> [id \in CouponIds \cup {InheritedMember} |-> 0],
     fetched |-> {}, edits |-> 0, version |-> [id \in CouponIds |-> 0],
     failed |-> {}]

\* Caller r makes a call: its first (callers are numbered in the order of their
\* first calls), or, its last call over, the same call again.
CouponCallArrives(r, couponCode) ==
    /\ cpn[r].calls < MaxCalls
    /\ \/ /\ cpn[r].pc = "idle"
          /\ \A q \in Requests : q < r => cpn[q].pc # "idle"
       \/ /\ cpn[r].pc \in {"done", "failed"}
          /\ cpn[r].couponCode = couponCode

\* findCouponDetails, up to its return or the await of stripe.coupons.retrieve
FindCouponDetails(r, couponCode) ==
    /\ CouponCallArrives(r, couponCode)
    /\ LET call == [IdleCouponCall EXCEPT !.calls = cpn[r].calls + 1,
                                          !.couponCode = couponCode]
           couponId == GetCouponIdForCode(couponCode)
       IN  IF IsFalsyString(couponCode) \/ couponId = None
           THEN /\ cpn' = [cpn EXCEPT ![r] = [call EXCEPT !.pc = "done"]]
                /\ cpnObs' = [cpnObs EXCEPT ![r] = NoCouponObs]
                /\ UNCHANGED cpnHist
           ELSE IF CacheHas(couponCache, couponId[1])
           THEN /\ cpn' = [cpn EXCEPT ![r] =
                      [call EXCEPT !.pc = "done", !.couponId = couponId,
                          !.result = Some(CouponDetails(couponId[1],
                                                        couponCache[couponId[1]]))]]
                /\ cpnObs' = [cpnObs EXCEPT ![r] =
                      [NoCouponObs EXCEPT
                          !.fetchedAtStart = couponId[1] \in cpnHist.fetched,
                          !.afterFailure = couponId[1] \in cpnHist.failed]]
                /\ cpnHist' = [cpnHist EXCEPT !.failed = @ \ {couponId[1]}]
           ELSE /\ cpn' = [cpn EXCEPT ![r] =
                      [call EXCEPT !.pc = "await_retrieve", !.couponId = couponId]]
                /\ cpnObs' = [cpnObs EXCEPT ![r] =
                      [NoCouponObs EXCEPT
                          !.reads = 1,
                          !.fetchedAtStart = couponId[1] \in cpnHist.fetched,
                          !.afterFailure = couponId[1] \in cpnHist.failed]]
                /\ cpnHist' = [cpnHist EXCEPT !.retrieves[couponId[1]] = @ + 1,
                                              !.failed = @ \ {couponId[1]}]
    /\ UNCHANGED <<couponCache, coupons>>
    /\ UNCHANGED notCpnVars

\* findCouponDetails, from the answer of stripe.coupons.retrieve to the return,
\* or to the throw when the retrieval is rejected
CouponRetrieved(r) ==
    /\ cpn[r].pc = "await_retrieve"
    /\ LET couponId == cpn[r].couponId[1]
           coupon == RetrieveCoupon(couponId)
       IN  IF coupon = None
           THEN /\ cpn' = [cpn EXCEPT ![r].pc = "failed",
                                      ![r].error = Some("No such coupon")]
                /\ cpnHist' = [cpnHist EXCEPT !.failed = @ \cup {couponId}]
                /\ UNCHANGED <<couponCache, cpnObs>>
           ELSE /\ couponCache' = CacheSet(couponCache, couponId, coupon[1])
                /\ cpn' = [cpn EXCEPT ![r].pc = "done",
                        ![r].result = Some(CouponDetails(couponId, coupon[1]))]
                /\ cpnObs' = [cpnObs EXCEPT ![r].cacheWrites = 1,
                        ![r].version = cpnHist.version[couponId]]
                /\ cpnHist' = [cpnHist EXCEPT !.fetched = @ \cup {couponId}]
    /\ UNCHANGED coupons
    /\ UNCHANGED notCpnVars

\* the rejection answered by caching an empty coupon under the id
CouponRetrievalFailedAndCached(r) ==
    /\ cpn[r].pc = "await_retrieve"
    /\ cpn' = [cpn EXCEPT ![r].pc = "failed",
                          ![r].error = Some("An error occurred with our connection to Stripe")]
    /\ couponCache' = CacheSet(couponCache, cpn[r].couponId[1],
                               Coupon(None, None, None))
    /\ cpnHist' = [cpnHist EXCEPT !.failed = @ \cup {cpn[r].couponId[1]}]
    /\ UNCHANGED <<coupons, cpnObs>>
    /\ UNCHANGED notCpnVars

\* findCouponDetails, when stripe.coupons.retrieve is rejected for a reason of
\* the request itself (connection, rate limit): the await throws
CouponRetrievalFailed(r) ==
    /\ cpn[r].pc = "await_retrieve"
    /\ cpn' = [cpn EXCEPT ![r].pc = "failed",
                          ![r].error = Some("An error occurred with our connection to Stripe")]
    /\ cpnHist' = [cpnHist EXCEPT !.failed = @ \cup {cpn[r].couponId[1]}]
    /\ UNCHANGED <<couponCache, coupons, cpnObs>>
    /\ UNCHANGED notCpnVars

\* The coupon of an id is edited in the external catalog (deleted, created, or
\* deleted and created anew with another discount) while the process runs.
CouponEdited(couponId, coupon) ==
    /\ cpnHist.edits < MaxEdits
    /\ coupons[couponId] # coupon
    /\ coupons' = [coupons EXCEPT ![couponId] = coupon]
    /\ cpnHist' = [cpnHist EXCEPT !.edits = @ + 1, !.version[couponId] = @ + 1]
    /\ UNCHANGED <<couponCache, cpn, cpnObs>>
    /\ UNCHANGED notCpnVars

-----------------------------------------------------------------------------
(* Amount Breakdown Calculator: src/src/utils/amounts.ts *)

\* the nearest integer to x / 100, a tie going down
RoundHundredthsTiesDown(x) == (x + 49) \div 100

\* Math.round(x / 100) for an integer x: the nearest integer, a tie going up
RoundHundredths(x) == (x + 50) \div 100

\* percentageToAmount
PercentageToAmount(amountCents, percent) == RoundHundredths(amountCents * percent)

\* the options callers pass: amounts in minor units, percents also out of range
BreakdownOptions ==
    [ couponPercent : {None} \cup {Some(x) : x \in {0 - 50, 0, 33, 50, 100, 150}},
      couponAmountOff : {None} \cup {Some(25 * k) : k \in 0..(MaxBase + 1)},
      appliesCreditCardFee : BOOLEAN,
      shippingAmount : {None, Some(7), Some(500)},
      baseAmount : {None} \cup {Some(25 * k) : k \in 0..MaxBase} ]

Breakdown(base, discount, subtotal, shipping, creditCardFee, total) ==
    [baseAmount |-> base, discountAmount |-> discount,
     subtotalAfterDiscount |-> subtotal, shippingAmount |-> shipping,
     creditCardFeeAmount |-> creditCardFee, totalAmount |-> total]

\* the breakdown with the percent discount taking precedence over the flat one
ComputeOneTimeBreakdownPercentFirst(options) ==
    LET baseAmount == Default(options.baseAmount, ONE_TIME_BASE_AMOUNT_CENTS)
        shippingAmount == Default(options.shippingAmount, SHIPPING_COST_CENTS)
        discountAmount ==
            IF options.couponPercent # None /\ options.couponPercent[1] # 0
            THEN PercentageToAmount(baseAmount, options.couponPercent[1])
            ELSE IF options.couponAmountOff # None
            THEN Min(options.couponAmountOff[1], baseAmount)
            ELSE 0
        subtotalAfterDiscount == Max(baseAmount - discountAmount, 0)
        creditCardFeeAmount ==
            IF options.appliesCreditCardFee
            THEN PercentageToAmount(subtotalAfterDiscount, CREDIT_CARD_FEE_PERCENT)
            ELSE 0
    IN  Breakdown(baseAmount, discountAmount, subtotalAfterDiscount, shippingAmount,
                  creditCardFeeAmount,
                  subtotalAfterDiscount + shippingAmount + creditCardFeeAmount)

\* the breakdown with the fee taken on the amount before the discount
ComputeOneTimeBreakdownFeeOnBase(options) ==
    LET baseAmount == Default(options.baseAmount, ONE_TIME_BASE_AMOUNT_CENTS)
        shippingAmount == Default(options.shippingAmount, SHIPPING_COST_CENTS)
        discountFromPercent ==
            IF options.couponPercent # None /\ options.couponPercent[1] # 0
            THEN PercentageToAmount(baseAmount, options.couponPercent[1])
            ELSE 0
        discountAmount ==
            IF options.couponAmountOff # None
            THEN Min(options.couponAmountOff[1], baseAmount)
            ELSE discountFromPercent
        subtotalAfterDiscount == Max(baseAmount - discountAmount, 0)
        creditCardFeeAmount ==
            IF options.appliesCreditCardFee
            THEN PercentageToAmount(baseAmount, CREDIT_CARD_FEE_PERCENT)
            ELSE 0
        totalAmount == subtotalAfterDiscount + shippingAmount + creditCardFeeAmount
    IN  Breakdown(baseAmount, discountAmount, subtotalAfterDiscount, shippingAmount,
                  creditCardFeeAmount, totalAmount)

\* computeOneTimeBreakdown
ComputeOneTimeBreakdown(options) ==
    LET baseAmount == Default(options.baseAmount, ONE_TIME_BASE_AMOUNT_CENTS)
        shippingAmount == Default(options.shippingAmount, SHIPPING_COST_CENTS)
        discountFromPercent ==
            IF options.couponPercent # None /\ options.couponPercent[1] # 0
            THEN PercentageToAmount(baseAmount, options.couponPercent[1])
            ELSE 0
        discountAmount ==
            IF options.couponAmountOff # None
            THEN Min(options.couponAmountOff[1], baseAmount)
            ELSE discountFromPercent
        subtotalAfterDiscount == Max(baseAmount - discountAmount, 0)
        feeBase == subtotalAfterDiscount
        creditCardFeeAmount ==
            IF options.appliesCreditCardFee
            THEN PercentageToAmount(feeBase, CREDIT_CARD_FEE_PERCENT)
            ELSE 0
        totalAmount == subtotalAfterDiscount + shippingAmount + creditCardFeeAmount
    IN  Breakdown(baseAmount, discountAmount, subtotalAfterDiscount, shippingAmount,
                  creditCardFeeAmount, totalAmount)

\* a caller computes a breakdown (the function keeps no state: one call, and
\* the variations of it below, are all there is to observe)
BreakdownComputed(options) ==
    /\ bdLast = None
    /\ bdLast' = Some([options |-> options, result |-> ComputeOneTimeBreakdown(options)])
    /\ bdPrev' = None
    /\ bdShip' = None
    /\ UNCHANGED notBdVars

\* the caller computes it again, this time supplying no couponPercent
BreakdownComputedWithoutPercent ==
    /\ bdLast # None
    /\ bdPrev = None
    /\ bdShip = None
    /\ bdLast[1].options.couponPercent # None
    /\ LET options == [bdLast[1].options EXCEPT !.couponPercent = None]
       IN  bdLast' = Some([options |-> options,
                           result |-> ComputeOneTimeBreakdown(options)])
    /\ bdPrev' = bdLast
    /\ bdShip' = None
    /\ UNCHANGED notBdVars

\* the caller computes it again, this time with another shippingAmount
BreakdownComputedWithShipping(shippingAmount) ==
    /\ bdLast # None
    /\ bdPrev = None
    /\ bdShip = None
    /\ bdLast[1].options.shippingAmount # shippingAmount
    /\ LET options == [bdLast[1].options EXCEPT !.shippingAmount = shippingAmount]
       IN  bdLast' = Some([options |-> options,
                           result |-> ComputeOneTimeBreakdown(options)])
    /\ bdShip' = bdLast
    /\ UNCHANGED <<bdPrev, notBdVars>>

-----------------------------------------------------------------------------
(* Timezone Resolver: src/src/utils/timezone.ts *)

\* the string itself, its letter case kept
KeepCase(str) == str

\* String.prototype.toUpperCase
ToUpperCase(str) ==
    [i \in 1..Len(str) |->
        IF \E k \in 1..26 : LowerCaseLetters[k] = str[i]
        THEN UpperCaseLetters[CHOOSE k \in 1..26 : LowerCaseLetters[k] = str[i]]
        ELSE str[i]]

US_STATE_TIMEZONES ==
    (<<"C", "A">> :> "America/Los_Angeles")
        @@ (<<"O", "R">> :> "America/Los_Angeles")
        @@ (<<"W", "A">> :> "America/Los_Angeles")
        @@ (<<"N", "V">> :> "America/Los_Angeles")
        @@ (<<"A", "Z">> :> "America/Phoenix")
        @@ (<<"C", "O">> :> "America/Denver")
        @@ (<<"U", "T">> :> "America/Denver")
        @@ (<<"N", "M">> :> "America/Denver")
        @@ (<<"M", "T">> :> "America/Denver")
        @@ (<<"I", "D">> :> "America/Denver")
        @@ (<<"N", "D">> :> "America/Chicago")
        @@ (<<"S", "D">> :> "America/Chicago")
        @@ (<<"N", "E">> :> "America/Chicago")
        @@ (<<"K", "S">> :> "America/Chicago")
        @@ (<<"O", "K">> :> "America/Chicago")
        @@ (<<"T", "X">> :> "America/Chicago")
        @@ (<<"M", "N">> :> "America/Chicago")
        @@ (<<"I", "A">> :> "America/Chicago")
        @@ (<<"M", "O">> :> "America/Chicago")
        @@ (<<"A", "R">> :> "America/Chicago")
        @@ (<<"L", "A">> :> "America/Chicago")
        @@ (<<"W", "I">> :> "America/Chicago")
        @@ (<<"I", "L">> :> "America/Chicago")
        @@ (<<"M", "I">> :> "America/Detroit")
        @@ (<<"I", "N">> :> "America/Indiana/Indianapolis")
        @@ (<<"K", "Y">> :> "America/New_York")
        @@ (<<"T", "N">> :> "America/Chicago")
        @@ (<<"M", "S">> :> "America/Chicago")
        @@ (<<"A", "L">> :> "America/Chicago")
        @@ (<<"G", "A">> :> "America/New_York")
        @@ (<<"F", "L">> :> "America/New_York")
        @@ (<<"S", "C">> :> "America/New_York")
        @@ (<<"N", "C">> :> "America/New_York")
        @@ (<<"V", "A">> :> "America/New_York")
        @@ (<<"W", "V">> :> "America/New_York")
        @@ (<<"O", "H">> :> "America/New_York")
        @@ (<<"P", "A">> :> "America/New_York")
        @@ (<<"N", "Y">> :> "America/New_York")
        @@ (<<"M", "D">> :> "America/New_York")
        @@ (<<"D", "E">> :> "America/New_York")
        @@ (<<"N", "J">> :> "America/New_York")
        @@ (<<"C", "T">> :> "America/New_York")
        @@ (<<"R", "I">> :> "America/New_York")
        @@ (<<"M", "A">> :> "America/New_York")
        @@ (<<"V", "T">> :> "America/New_York")
        @@ (<<"N", "H">> :> "America/New_York")
        @@ (<<"M", "E">> :> "America/New_York")
        @@ (<<"A", "K">> :> "America/Anchorage")
        @@ (<<"H", "I">> :> "Pacific/Honolulu")
        @@ (<<"P", "R">> :> "America/Puerto_Rico")

COUNTRY_DEFAULT_TIMEZONES ==
    (<<"U", "S">> :> "America/New_York")
        @@ (<<"C", "A">> :> "America/Toronto")
        @@ (<<"G", "B">> :> "Europe/London")
        @@ (<<"I", "E">> :> "Europe/Dublin")
        @@ (<<"F", "R">> :> "Europe/Paris")
        @@ (<<"D", "E">> :> "Europe/Berlin")
        @@ (<<"E", "S">> :> "Europe/Madrid")
        @@ (<<"I", "T">> :> "Europe/Rome")
        @@ (<<"A", "U">> :> "Australia/Sydney")
        @@ (<<"N", "Z">> :> "Pacific/Auckland")

UTC == "UTC"

\* inferTimezoneFromAddress
InferTimezone(address) ==
    LET country == IF address.country = None THEN None
                   ELSE Some(ToUpperCase(address.country[1]))
    IN  IF IsFalsyString(country) THEN UTC
        ELSE LET state == IF IsFalsyString(address.state) THEN None
                          ELSE Some(ToUpperCase(address.state[1]))
                 entry == IF state = None THEN None
                          ELSE PropertyLookup(US_STATE_TIMEZONES, state[1])
             IN  IF country[1] = <<"U", "S">> /\ state # None /\ entry # None
                 THEN entry[1]
                 ELSE Default(PropertyLookup(COUNTRY_DEFAULT_TIMEZONES, country[1]),
                              UTC)

\* the postal codes of the 50 states, of the federal district and of Puerto Rico
PostalCodes ==
    { <<"A", "L">>, <<"A", "K">>, <<"A", "Z">>, <<"A", "R">>, <<"C", "A">>,
      <<"C", "O">>, <<"C", "T">>, <<"D", "E">>, <<"F", "L">>, <<"G", "A">>,
      <<"H", "I">>, <<"I", "D">>, <<"I", "L">>, <<"I", "N">>, <<"I", "A">>,
      <<"K", "S">>, <<"K", "Y">>, <<"L", "A">>, <<"M", "E">>, <<"M", "D">>,
      <<"M", "A">>, <<"M", "I">>, <<"M", "N">>, <<"M", "S">>, <<"M", "O">>,
      <<"M", "T">>, <<"N", "E">>, <<"N", "V">>, <<"N", "H">>, <<"N", "J">>,
      <<"N", "M">>, <<"N", "Y">>, <<"N", "C">>, <<"N", "D">>, <<"O", "H">>,
      <<"O", "K">>, <<"O", "R">>, <<"P", "A">>, <<"R", "I">>, <<"S", "C">>,
      <<"S", "D">>, <<"T", "N">>, <<"T", "X">>, <<"U", "T">>, <<"V", "T">>,
      <<"V", "A">>, <<"W", "A">>, <<"W", "V">>, <<"W", "I">>, <<"W", "Y">>,
      <<"D", "C">>, <<"P", "R">> }

\* the addresses callers send: country and state missing, empty, blank, in
\* either letter case, known and unknown
Addresses ==
    [ country : { None, Some(<<>>), Some(<<" ", " ">>),
                  Some(<<"U", "S">>), Some(<<"u", "s">>), Some(<<"U", "s">>),
                  Some(<<"F", "R">>), Some(<<"f", "r">>), Some(<<"C", "A">>),
                  Some(<<"c", "a">>), Some(<<"N", "Z">>), Some(<<"X", "X">>),
                  Some(<<"c", "o", "n", "s", "t", "r", "u", "c", "t", "o", "r">>) },
      state : { None, Some(<<>>), Some(<<"Z", "Z">>), Some(<<"c", "a">>),
                Some(<<"a", "z">>), Some(<<"W", "y">>), Some(<<"O", "N">>),
                Some(<<"c", "o", "n", "s", "t", "r", "u", "c", "t", "o", "r">>) }
              \cup {Some(code) : code \in PostalCodes} ]

\* a caller resolves the timezone of an address
InferTimezoneFromAddress(address) ==
    /\ tzLast = None
    /\ tzLast' = Some([address |-> address, result |-> InferTimezone(address)])
    /\ UNCHANGED notTzVars

-----------------------------------------------------------------------------
(* Start Date Window: src/unnamed/part_000 (utils/dates) *)

\* A time value is a number of hours since 1970-01-01T00:00Z (the clock is read
\* to the hour); the process runs in UTC, so local time is UTC.
Digits == <<"0", "1", "2", "3", "4", "5", "6", "7", "8", "9">>
IsDigit(c) == \E k \in 1..10 : Digits[k] = c
DigitValue(c) == (CHOOSE k \in 1..10 : Digits[k] = c) - 1

RECURSIVE ToNumber(_)
ToNumber(str) ==
    IF str = <<>> THEN 0
    ELSE 10 * ToNumber(SubSeq(str, 1, Len(str) - 1)) + DigitValue(str[Len(str)])

\* DayFromYear(y) of ECMA-262: the day number of January 1st of year y
DayFromYear(y) ==
    365 * (y - 1970) + ((y - 1969) \div 4) - ((y - 1901) \div 100)
        + ((y - 1601) \div 400)

InLeapYear(y) == (y % 4 = 0 /\ y % 100 # 0) \/ y % 400 = 0

\* days of a common year before the first of each month (month 0 is January)
DaysBeforeMonth == <<0, 31, 59, 90, 120, 151, 181, 212, 243, 273, 304, 334>>

\* MakeDay(year, month, date) of ECMA-262: months beyond December carry into
\* the year, dates beyond the month's end run into the months that follow
MakeDay(year, month, date) ==
    LET ym == year + (month \div 12)
        mn == month % 12
    IN  DayFromYear(ym) + DaysBeforeMonth[mn + 1]
            + (IF InLeapYear(ym) /\ mn >= 2 THEN 1 ELSE 0) + date - 1

\* MakeDate(day, time), in hours
MakeDate(day, hour) == day * 24 + hour

\* new Date(value) for a string: the ISO date-only form YYYY-MM-DD is midnight
\* UTC of that date; a string of another shape, or with a month outside 1..12
\* or a day outside 1..31, is an invalid date (NaN), here None
ParseDate(str) ==
    IF /\ Len(str) = 10
       /\ str[5] = "-"
       /\ str[8] = "-"
       /\ \A i \in {1, 2, 3, 4, 6, 7, 9, 10} : IsDigit(str[i])
    THEN LET year == ToNumber(SubSeq(str, 1, 4))
             month == ToNumber(SubSeq(str, 6, 7))
             day == ToNumber(SubSeq(str, 9, 10))
         IN  IF month \in 1..12 /\ day \in 1..31
             THEN Some(MakeDate(MakeDay(year, month - 1, day), 0))
             ELSE None
    ELSE None

\* the clock: year, month (0 is January), day of the month, hour
Clock(year, month, date, hour) ==
    [year |-> year, month |-> month, date |-> date, hour |-> hour]

\* new Date(): the time value of the clock
TimeOf(now) == MakeDate(MakeDay(now.year, now.month, now.date), now.hour)

\* the upper bound taken 60 days after now
MaxDateSixtyDaysLater(now) ==
    MakeDate(MakeDay(now.year, now.month, now.date) + 60, now.hour)

\* maxDate = new Date(now); maxDate.setMonth(now.getMonth() + 2)
MaxDate(now) == MakeDate(MakeDay(now.year, now.month + 2, now.date), now.hour)

\* isDateWithinNextTwoMonths, the clock reading now
IsWithinNextTwoMonths(value, now) ==
    IF IsFalsyString(value) THEN FALSE
    ELSE LET parsedDate == ParseDate(value[1])
         IN  IF parsedDate = None THEN FALSE
             ELSE parsedDate[1] >= TimeOf(now) /\ parsedDate[1] <= MaxDate(now)

\* the values callers send: missing, empty, malformed, and calendar dates
DateValues ==
    { None, Some(<<>>),
      Some(<<"g", "a", "r", "b", "a", "g", "e">>),
      Some(<<"2", "0", "2", "4", "-", "1", "3", "-", "0", "1">>),
      Some(<<"2", "0", "2", "4", "-", "0", "0", "-", "1", "0">>),
      Some(<<"2", "0", "2", "4", "-", "0", "2", "-", "0", "1">>),
      Some(<<"2", "0", "2", "4", "-", "0", "4", "-", "0", "1">>),
      Some(<<"2", "0", "2", "3", "-", "1", "2", "-", "0", "1">>),
      Some(<<"2", "0", "2", "4", "-", "0", "1", "-", "1", "5">>),
      Some(<<"2", "0", "2", "4", "-", "0", "1", "-", "1", "6">>),
      Some(<<"2", "0", "2", "4", "-", "0", "3", "-", "1", "5">>),
      Some(<<"2", "0", "2", "4", "-", "0", "3", "-", "1", "6">>),
      Some(<<"2", "0", "2", "4", "-", "0", "3", "-", "0", "1">>),
      Some(<<"2", "0", "2", "4", "-", "0", "3", "-", "0", "2">>),
      Some(<<"2", "0", "2", "4", "-", "0", "3", "-", "0", "3">>),
      Some(<<"2", "0", "2", "4", "-", "0", "2", "-", "2", "9">>),
      Some(<<"2", "0", "2", "4", "-", "1", "0", "-", "0", "1">>),
      Some(<<"2", "0", "2", "4", "-", "1", "0", "-", "0", "2">>),
      Some(<<"2", "0", "2", "4", "-", "0", "9", "-", "3", "0">>),
      Some(<<"2", "0", "2", "5", "-", "0", "1", "-", "1", "5">>),
      Some(<<"2", "0", "2", "5", "-", "0", "1", "-", "1", "6">>),
      Some(<<"2", "0", "2", "5", "-", "0", "3", "-", "0", "3">>),
      Some(<<"2", "0", "2", "5", "-", "0", "3", "-", "0", "4">>),
      Some(<<"2", "0", "2", "4", "-", "1", "2", "-", "3", "1">>) }

\* the readings of the clock: mid-month, month ends whose day the month two
\* months later lacks, and months from which two months later is next year
Clocks ==
    { Clock(2024, 0, 15, 0), Clock(2024, 0, 15, 12), Clock(2023, 11, 31, 12),
      Clock(2024, 11, 31, 0), Clock(2024, 6, 31, 12), Clock(2024, 10, 15, 12),
      Clock(2024, 7, 1, 0) }

\* a caller validates a desired start date
IsDateWithinNextTwoMonths(value, now) ==
    /\ dtLast = None
    /\ dtLast' = Some([value |-> value, now |-> now,
                       result |-> IsWithinNextTwoMonths(value, now)])
    /\ UNCHANGED notDtVars

-----------------------------------------------------------------------------
(* Checkout routes: src/src/routes/subscriptions.ts (the subscription route,  *)
(* lines 57-211, and the one-time payment route, lines 260-460)              *)

\* The process serves one request after the other; rt is the request being
\* served, cut at the awaits of its handler.  The calls the handlers make to
\* findCouponDetails and to the fee price registry run here on the same
\* couponCache and catalog, through the operators of those modules.

\* the payment methods stripe.paymentMethods.retrieve answers with: the type,
\* and for a card its funding, when the card reports one
PaymentMethod(type, funding) == [type |-> type, funding |-> funding]

PaymentMethods ==
    { PaymentMethod("card", Some("credit")), PaymentMethod("card", Some("debit")),
      PaymentMethod("card", Some("prepaid")), PaymentMethod("card", Some("unknown")),
      PaymentMethod("card", None), PaymentMethod("us_bank_account", None) }

\* isCreditFunding
IsCreditFunding(paymentMethod) ==
    IF paymentMethod.type # "card" THEN FALSE
    ELSE LET funding == Default(paymentMethod.funding, "unknown")
         IN  funding = "credit" \/ funding = "unknown"

\* the prices stripe.prices.retrieve answers with: a plan of 5000 a month, a
\* plan of 10 a year, a one-time price of 5000 and of 10, a price in another
\* currency and a price without amount
RetrievedPrices ==
    { Price(50, "prod_plan", TRUE, BASE_CURRENCY, 5000, Recurring("month", 1)),
      Price(51, "prod_plan", TRUE, BASE_CURRENCY, 10, Recurring("year", 1)),
      Price(52, "prod_one_time", TRUE, BASE_CURRENCY, 5000, None),
      Price(53, "prod_one_time", TRUE, BASE_CURRENCY, 10, None),
      Price(54, "prod_plan", TRUE, "eur", 5000, Recurring("month", 1)),
      Price(55, "prod_one_time", TRUE, "eur", 5000, None),
      Price(56, "prod_plan", TRUE, BASE_CURRENCY, 0, Recurring("month", 1)) }

\* the coupon codes of the payloads
RouteCouponCodes == { None, Some(<<"v", "i", "p">>), Some(<<"F", "l", "a", "t">>) }

\* the desiredStartDate of the payloads, and the clock of the process
RouteStartDates == { None, Some(<<"2", "0", "2", "4", "-", "0", "2", "-", "0", "1">>), Some(<<"2", "0", "2", "4", "-", "0", "4", "-", "0", "1">>) }
RouteClock == Clock(2024, 0, 15, 12)

\* what the external coupon catalog may hold when the process starts: a percent
\* coupon and a flat one in the base currency; a full discount and a flat one
\* in another currency; a coupon carrying both a percent and a flat amount and
\* a flat one above every price
RouteCoupons ==
    { [id \in CouponIds |-> IF id = "cpn_A" THEN Some(Coupon(Some(10), None, None))
                            ELSE Some(Coupon(None, Some(2000), Some(BASE_CURRENCY)))],
      [id \in CouponIds |-> IF id = "cpn_A" THEN Some(Coupon(Some(100), None, None))
                            ELSE Some(Coupon(None, Some(2000), Some("eur")))],
      [id \in CouponIds |-> IF id = "cpn_A"
                            THEN Some(Coupon(Some(10), Some(2000), Some(BASE_CURRENCY)))
                            ELSE Some(Coupon(None, Some(6000), Some(BASE_CURRENCY)))] }

IdleRoute ==
    [pc |-> "idle", flow |-> "none", couponCode |-> None, paymentMethod |-> None,
     price |-> None, creditFunding |-> FALSE, couponPending |-> None,
     couponDetails |-> None, effectiveCouponAmount |-> 0,
     discountedPlanAmount |-> 0, breakdown |-> None, creditCardFeeAmount |-> None,
     registryCalls |-> <<>>, feePriceId |-> None, items |-> <<>>,
     status |-> 0, error |-> None, response |-> None]

\* res.status(400).json({error}) and next(error)
Rejected(request, message) ==
    [request EXCEPT !.pc = "responded", !.status = 400, !.error = Some(message)]
Thrown(request, message) ==
    [request EXCEPT !.pc = "failed", !.status = 500, !.error = Some(message)]

\* the handler calls findCouponDetails: the function runs to its return or to
\* its await of stripe.coupons.retrieve
CouponCalled(request) ==
    LET couponId == GetCouponIdForCode(request.couponCode)
    IN  IF IsFalsyString(request.couponCode) \/ couponId = None
        THEN [request EXCEPT !.pc = "await_coupon"]
        ELSE IF CacheHas(couponCache, couponId[1])
        THEN [request EXCEPT !.pc = "await_coupon",
                 !.couponDetails = Some(CouponDetails(couponId[1],
                                                      couponCache[couponId[1]]))]
        ELSE [request EXCEPT !.pc = "await_coupon", !.couponPending = couponId]

\* the handler calls the fee price registry: the function throws on the amount
\* guard or runs to its await of stripe.prices.list
RegistryCalled(request, kind, feeAmountCents, recurring) ==
    LET call == [kind |-> kind, feeAmountCents |-> feeAmountCents,
                 recurring |-> recurring]
        called == [request EXCEPT !.registryCalls = Append(@, call)]
    IN  IF AmountRejected(feeAmountCents) THEN Thrown(called, InvalidAmount)
        ELSE [called EXCEPT !.pc = "await_fee_list"]

\* a request arrives at either route; the handler runs to its first answer or
\* to the await of findCustomerByEmail
RequestReceived(flow, couponCode, desiredStartDate) ==
    /\ rt.pc \in {"idle", "responded", "failed"}
    /\ rtServed < MaxServed
    /\ rtServed' = rtServed + 1
    /\ LET request == [IdleRoute EXCEPT !.flow = flow, !.couponCode = couponCode]
       IN  rt' = IF /\ ~IsFalsyString(desiredStartDate)
                    /\ ~IsWithinNextTwoMonths(desiredStartDate, RouteClock)
                 THEN Rejected(request,
                               "Desired start date must be within the next two months.")
                 ELSE [request EXCEPT !.pc = "await_customer"]
    /\ UNCHANGED <<catalog, nextPriceId, couponCache, coupons, notRtVars>>

\* findCustomerByEmail answers: no customer (it throws), a customer without a
\* default payment method, or one with; then the await of retrievePaymentMethod
CustomerFound(customer) ==
    /\ rt.pc = "await_customer"
    /\ rt' = IF customer = "none"
             THEN Thrown(rt, "Customer not found. Please set up your account first.")
             ELSE IF customer = "no_default_payment_method"
             THEN Rejected(rt, "Customer does not have a default payment method.")
             ELSE [rt EXCEPT !.pc = "await_payment_method"]
    /\ UNCHANGED <<catalog, nextPriceId, couponCache, coupons, rtServed, notRtVars>>

\* retrievePaymentMethod answers.  The subscription route goes on to the await
\* of stripe.prices.retrieve; the one-time route tests the funding and calls
\* findCouponDetails
PaymentMethodRetrieved(paymentMethod) ==
    /\ rt.pc = "await_payment_method"
    /\ rt' = IF paymentMethod.type # "card"
             THEN Rejected(rt, "Only card payment methods are supported.")
             ELSE IF rt.flow = "subscription"
             THEN [rt EXCEPT !.pc = "await_price",
                             !.paymentMethod = Some(paymentMethod)]
             ELSE CouponCalled([rt EXCEPT
                      !.paymentMethod = Some(paymentMethod),
                      !.creditFunding = IsCreditFunding(paymentMethod)])
    /\ UNCHANGED <<catalog, nextPriceId, couponCache, coupons, rtServed, notRtVars>>

\* subscription route: stripe.prices.retrieve answers with the plan's price;
\* the checks, isCreditFunding, and the call of findCouponDetails
SubscriptionPriceRetrieved(price) ==
    /\ rt.pc = "await_price"
    /\ rt.flow = "subscription"
    /\ rt' = IF price.currency # BASE_CURRENCY
             THEN Thrown(rt, "Price currency does not match expected")
             ELSE IF price.unit_amount = 0 \/ price.recurring = None
             THEN Thrown(rt, "Subscription price must have a recurring unit amount.")
             ELSE CouponCalled([rt EXCEPT
                      !.price = Some(price),
                      !.creditFunding = IsCreditFunding(rt.paymentMethod[1])])
    /\ UNCHANGED <<catalog, nextPriceId, couponCache, coupons, rtServed, notRtVars>>

\* findCouponDetails returns to the handler: at once when it had returned null
\* or the cached details, else when stripe.coupons.retrieve has answered and
\* the coupon is cached (the handler's await throws when the retrieval fails)
CouponAnswer(request) ==
    IF request.couponPending = None THEN request.couponDetails
    ELSE LET coupon == RetrieveCoupon(request.couponPending[1])
         IN  IF coupon = None THEN None
             ELSE Some(CouponDetails(request.couponPending[1], coupon[1]))

CouponCacheAfter(request) ==
    IF request.couponPending = None
       \/ RetrieveCoupon(request.couponPending[1]) = None
    THEN couponCache
    ELSE CacheSet(couponCache, request.couponPending[1],
                  RetrieveCoupon(request.couponPending[1])[1])

CouponFetchFailed(request) ==
    request.couponPending # None /\ RetrieveCoupon(request.couponPending[1]) = None

\* couponDetails?.percentOff and couponDetails?.amountOff as conditions: a
\* number other than 0
Truthy(number) == number # None /\ number[1] # 0

PercentOff(couponDetails) ==
    IF couponDetails = None THEN None ELSE couponDetails[1].percentOff
AmountOff(couponDetails) ==
    IF couponDetails = None THEN None ELSE couponDetails[1].amountOff
AmountOffInBaseCurrency(couponDetails) ==
    IF Truthy(AmountOff(couponDetails))
       /\ couponDetails[1].currency = Some(BASE_CURRENCY)
    THEN AmountOff(couponDetails) ELSE None

Amounts3(effectiveCouponAmount, discountedPlanAmount, creditCardFeeAmount) ==
    [effectiveCouponAmount |-> effectiveCouponAmount,
     discountedPlanAmount |-> discountedPlanAmount,
     creditCardFeeAmount |-> creditCardFeeAmount]

\* subscription route, lines 97-109: the discount and the fee computed inline
SubscriptionAmounts(planUnitAmount, couponDetails, creditFunding) ==
    LET effectiveCouponAmount ==
            IF Truthy(PercentOff(couponDetails))
            THEN PercentageToAmount(planUnitAmount, PercentOff(couponDetails)[1])
            ELSE IF AmountOffInBaseCurrency(couponDetails) # None
            THEN Min(AmountOff(couponDetails)[1], planUnitAmount)
            ELSE 0
        discountedPlanAmount ==
            IF Truthy(PercentOff(couponDetails))
               \/ AmountOffInBaseCurrency(couponDetails) # None
            THEN Max(planUnitAmount - effectiveCouponAmount, 0)
            ELSE planUnitAmount
        creditCardFeeAmount ==
            IF creditFunding
            THEN PercentageToAmount(discountedPlanAmount, CREDIT_CARD_FEE_PERCENT)
            ELSE 0
    IN  Amounts3(effectiveCouponAmount, discountedPlanAmount, creditCardFeeAmount)

\* the subscription's items: the plan, and the fee price when there is one;
\* then the await of stripe.subscriptions.create
SubscriptionItemsBuilt(request, feePriceId) ==
    [request EXCEPT !.pc = "await_subscription", !.feePriceId = feePriceId,
                    !.items = IF feePriceId # None THEN <<"plan", "fee">>
                              ELSE <<"plan">>]

\* the fee guard of the subscription route left out: the registry is called
\* with whatever fee was computed
SubscriptionFeeUnguarded(request, creditCardFeeAmount) ==
    RegistryCalled(request, "recurring", creditCardFeeAmount,
        [interval |-> request.price[1].recurring[1].interval,
         intervalCount |-> Some(request.price[1].recurring[1].interval_count)])

\* subscription route, lines 117-123: if (creditCardFeeAmount > 0) the registry
\* is called; else the items are built without a fee
SubscriptionFeeGuarded(request, creditCardFeeAmount) ==
    IF creditCardFeeAmount > 0
    THEN RegistryCalled(request, "recurring", creditCardFeeAmount,
             [interval |-> request.price[1].recurring[1].interval,
              intervalCount |-> Some(request.price[1].recurring[1].interval_count)])
    ELSE SubscriptionItemsBuilt(request, None)

\* subscription route: findCouponDetails has returned; the amounts are
\* computed and the fee registry is called when the fee is positive
SubscriptionCouponResolved ==
    /\ rt.pc = "await_coupon"
    /\ rt.flow = "subscription"
    /\ couponCache' = CouponCacheAfter(rt)
    /\ IF CouponFetchFailed(rt)
       THEN rt' = Thrown(rt, "No such coupon")
       ELSE LET couponDetails == CouponAnswer(rt)
                amounts == SubscriptionAmounts(rt.price[1].unit_amount,
                                               couponDetails, rt.creditFunding)
                request == [rt EXCEPT
                    !.couponPending = None,
                    !.couponDetails = couponDetails,
                    !.effectiveCouponAmount = amounts.effectiveCouponAmount,
                    !.discountedPlanAmount = amounts.discountedPlanAmount,
                    !.creditCardFeeAmount = Some(amounts.creditCardFeeAmount)]
            IN  rt' = SubscriptionFeeGuarded(request, amounts.creditCardFeeAmount)
    /\ UNCHANGED <<catalog, nextPriceId, coupons, rtServed, notRtVars>>

\* the registry's call in flight
RegistryCall(request) == request.registryCalls[Len(request.registryCalls)]

\* the registry returns a price id to the handler: the subscription route
\* builds its items, the one-time route awaits stripe.invoiceItems.create
FeePriceReturned(request, id) ==
    IF request.flow = "subscription" THEN SubscriptionItemsBuilt(request, Some(id))
    ELSE [request EXCEPT !.pc = "await_fee_item", !.feePriceId = Some(id)]

\* either registry variant, from the answer of stripe.prices.list to its return
\* of the matching price or its await of stripe.prices.create
FeePricesListed ==
    /\ rt.pc = "await_fee_list"
    /\ LET call == RegistryCall(rt)
           existingPrices ==
               ListActivePrices(catalog, CREDIT_CARD_FEE_PRODUCT_ID,
                                IF call.kind = "one_time" THEN Some(BASE_CURRENCY)
                                ELSE None,
                                PriceListLimit)
           matchingPrice ==
               Find(SelectSeq(existingPrices, LAMBDA price :
                   IF call.kind = "one_time"
                   THEN OneTimePriceMatches(price, call.feeAmountCents)
                   ELSE RecurringPriceMatches(price, call.feeAmountCents,
                                              call.recurring)))
       IN  rt' = IF matchingPrice # None
                 THEN FeePriceReturned(rt, matchingPrice[1].id)
                 ELSE [rt EXCEPT !.pc = "await_fee_create"]
    /\ UNCHANGED <<catalog, nextPriceId, couponCache, coupons, rtServed, notRtVars>>

\* either registry variant, from the answer of stripe.prices.create to its
\* return
FeePriceCreated ==
    /\ rt.pc = "await_fee_create"
    /\ LET call == RegistryCall(rt)
       IN  CreatePrice(BASE_CURRENCY, call.feeAmountCents,
                       IF call.kind = "one_time" THEN None
                       ELSE Recurring(call.recurring.interval,
                                      Default(call.recurring.intervalCount, 1)))
    /\ rt' = FeePriceReturned(rt, nextPriceId)
    /\ UNCHANGED <<couponCache, coupons, rtServed, notRtVars>>

\* subscription route: stripe.subscriptions.create has answered; no shipping
\* item is created for a shipping cost of 0; the payment intent is read and
\* confirmed and the response is sent
SubscriptionCreated ==
    /\ rt.pc = "await_subscription"
    /\ rt' = [rt EXCEPT
           !.pc = "responded", !.status = 200,
           !.items = IF SHIPPING_COST_CENTS > 0 THEN Append(@, "shipping") ELSE @,
           !.response = Some([creditCardFeeAmount |-> rt.creditCardFeeAmount[1],
                              shippingAmount |-> SHIPPING_COST_CENTS])]
    /\ UNCHANGED <<catalog, nextPriceId, couponCache, coupons, rtServed, notRtVars>>

\* one-time route: findCouponDetails has returned; then the awaits of
\* stripe.products.retrieve and stripe.prices.retrieve
PaymentCouponResolved ==
    /\ rt.pc = "await_coupon"
    /\ rt.flow = "one_time"
    /\ couponCache' = CouponCacheAfter(rt)
    /\ rt' = IF CouponFetchFailed(rt) THEN Thrown(rt, "No such coupon")
             ELSE [rt EXCEPT !.pc = "await_price", !.couponPending = None,
                             !.couponDetails = CouponAnswer(rt)]
    /\ UNCHANGED <<catalog, nextPriceId, coupons, rtServed, notRtVars>>

\* one-time route, lines 325-330: the options handed to computeOneTimeBreakdown
OneTimeOptions(request, baseAmount) ==
    [couponPercent |-> PercentOff(request.couponDetails),
     couponAmountOff |-> AmountOff(request.couponDetails),
     appliesCreditCardFee |-> request.creditFunding,
     shippingAmount |-> None,
     baseAmount |-> Some(baseAmount)]

\* one-time route: the product's default price has been retrieved; the checks,
\* the breakdown, and the await of stripe.invoices.create
PaymentPriceRetrieved(oneTimePrice) ==
    /\ rt.pc = "await_price"
    /\ rt.flow = "one_time"
    /\ rt' = IF oneTimePrice.currency # BASE_CURRENCY
             THEN Thrown(rt, "Price currency does not match expected")
             ELSE IF oneTimePrice.unit_amount = 0
             THEN Thrown(rt, "One-time price must have a unit amount.")
             ELSE IF oneTimePrice.recurring # None
             THEN Thrown(rt, "One-time price must not be recurring.")
             ELSE LET breakdown == ComputeOneTimeBreakdown(
                                       OneTimeOptions(rt, oneTimePrice.unit_amount))
                  IN  [rt EXCEPT !.pc = "await_invoice",
                          !.price = Some(oneTimePrice),
                          !.breakdown = Some(breakdown),
                          !.creditCardFeeAmount = Some(breakdown.creditCardFeeAmount)]
    /\ UNCHANGED <<catalog, nextPriceId, couponCache, coupons, rtServed, notRtVars>>

\* one-time route, lines 333-404: the invoice and its product item have been
\* created (and a shipping item, for a shipping cost above 0); if the fee of
\* the breakdown is positive the one-time registry is called, else the handler
\* goes on to the coupon, finalization and payment of the invoice
InvoiceCreated ==
    /\ rt.pc = "await_invoice"
    /\ LET request == [rt EXCEPT !.items =
                          IF SHIPPING_COST_CENTS > 0 THEN <<"product", "shipping">>
                          ELSE <<"product">>]
       IN  rt' = IF rt.breakdown[1].creditCardFeeAmount > 0
                 THEN RegistryCalled(request, "one_time",
                                     rt.breakdown[1].creditCardFeeAmount, None)
                 ELSE [request EXCEPT !.pc = "await_payment"]
    /\ UNCHANGED <<catalog, nextPriceId, couponCache, coupons, rtServed, notRtVars>>

\* one-time route: the fee's invoice item has been created
FeeItemAdded ==
    /\ rt.pc = "await_fee_item"
    /\ rt' = [rt EXCEPT !.pc = "await_payment", !.items = Append(@, "fee")]
    /\ UNCHANGED <<catalog, nextPriceId, couponCache, coupons, rtServed, notRtVars>>

\* one-time route, lines 406-456: the coupon is attached, the invoice
\* finalized and paid, and the response sent
InvoicePaid ==
    /\ rt.pc = "await_payment"
    /\ rt' = [rt EXCEPT
           !.pc = "responded", !.status = 200,
           !.response = Some(
               [amount |-> rt.breakdown[1].totalAmount,
                shippingAmount |-> rt.breakdown[1].shippingAmount,
                creditCardFeeAmount |-> rt.breakdown[1].creditCardFeeAmount,
                coupon |-> [percentOff |-> PercentOff(rt.couponDetails),
                            amountOff |-> AmountOffInBaseCurrency(rt.couponDetails)]])]
    /\ UNCHANGED <<catalog, nextPriceId, couponCache, coupons, rtServed, notRtVars>>

\* a request to the external service is rejected (connection, rate limit): the
\* handler's await throws and the error goes to next(error)
StripeCallRejected ==
    /\ rt.pc \in {"await_customer", "await_payment_method", "await_price",
                  "await_fee_list", "await_fee_create", "await_subscription",
                  "await_invoice", "await_fee_item", "await_payment"}
       \/ (rt.pc = "await_coupon" /\ rt.couponPending # None)
    /\ rt' = Thrown(rt, "An error occurred with our connection to Stripe")
    /\ UNCHANGED <<catalog, nextPriceId, couponCache, coupons, rtServed, notRtVars>>

-----------------------------------------------------------------------------
(* Specifications *)

FeeAtStart ==
    /\ nextPriceId = 10
    /\ fee = [r \in Requests |-> IdleCall]
    /\ feeObs = [r \in Requests |-> NoObs]

CouponsAtStart ==
    /\ couponCache = <<>>
    /\ coupons = [id \in CouponIds |->
                     IF id = "cpn_A" THEN Some(Coupon(Some(10), None, None))
                     ELSE Some(Coupon(None, Some(5), Some(BASE_CURRENCY)))]
    /\ cpn = [r \in Requests |-> IdleCouponCall]
    /\ cpnObs = [r \in Requests |-> NoCouponObs]
    /\ cpnHist = HistAtStart

BreakdownAtStart ==
    /\ bdLast = None
    /\ bdPrev = None
    /\ bdShip = None

TimezoneAtStart == tzLast = None

DatesAtStart == dtLast = None

RoutesAtStart ==
    /\ rt = IdleRoute
    /\ rtServed = 0

\* the fee price registry, called by concurrent callers
InitFee ==
    /\ catalog \in InitialCatalogs
    /\ FeeAtStart
    /\ CouponsAtStart
    /\ BreakdownAtStart
    /\ TimezoneAtStart
    /\ DatesAtStart
    /\ RoutesAtStart

NextFee ==
    \E r \in Requests :
        \/ \E a \in Amounts, rec \in RecurringParams :
               GetOrCreateCreditCardFeePrice(r, a, rec)
        \/ RecurringPricesListed(r)
        \/ RecurringPriceCreated(r)
        \/ \E a \in Amounts : GetOrCreateOneTimeCreditCardFeePrice(r, a)
        \/ OneTimePricesListed(r)
        \/ OneTimePriceCreated(r)

SpecFee == InitFee /\ [][NextFee]_vars

\* the coupon resolver, called by concurrent callers, beside an external catalog
\* that may be edited
InitCoupon ==
    /\ catalog = SeedPrices
    /\ FeeAtStart
    /\ CouponsAtStart
    /\ BreakdownAtStart
    /\ TimezoneAtStart
    /\ DatesAtStart
    /\ RoutesAtStart

NextCoupon ==
    \/ \E r \in Requests :
        \/ \E code \in CouponCodes : FindCouponDetails(r, code)
        \/ CouponRetrieved(r)
        \/ CouponRetrievalFailed(r)
    \/ \E id \in CouponIds, c \in {None} \cup {Some(x) : x \in CouponShapes} :
           CouponEdited(id, c)

SpecCoupon == InitCoupon /\ [][NextCoupon]_vars

\* the amount breakdown calculator, applied to the options of BreakdownOptions
InitBreakdown ==
    /\ catalog = SeedPrices
    /\ FeeAtStart
    /\ CouponsAtStart
    /\ BreakdownAtStart
    /\ TimezoneAtStart
    /\ DatesAtStart
    /\ RoutesAtStart

NextBreakdown ==
    \/ \E options \in BreakdownOptions : BreakdownComputed(options)
    \/ BreakdownComputedWithoutPercent
    \/ \E shippingAmount \in {None, Some(7), Some(500)} :
           BreakdownComputedWithShipping(shippingAmount)

SpecBreakdown == InitBreakdown /\ [][NextBreakdown]_vars

\* the timezone resolver, applied to the addresses of Addresses
InitTimezone ==
    /\ catalog = SeedPrices
    /\ FeeAtStart
    /\ CouponsAtStart
    /\ BreakdownAtStart
    /\ TimezoneAtStart
    /\ DatesAtStart
    /\ RoutesAtStart

NextTimezone == \E address \in Addresses : InferTimezoneFromAddress(address)

SpecTimezone == InitTimezone /\ [][NextTimezone]_vars

\* the start date window, applied to the values of DateValues at the clock
\* readings of Clocks
InitDates ==
    /\ catalog = SeedPrices
    /\ FeeAtStart
    /\ CouponsAtStart
    /\ BreakdownAtStart
    /\ TimezoneAtStart
    /\ DatesAtStart
    /\ RoutesAtStart

NextDates ==
    \E value \in DateValues, now \in Clocks : IsDateWithinNextTwoMonths(value, now)

SpecDates == InitDates /\ [][NextDates]_vars

\* the two checkout routes, serving requests one after the other
InitRoutes ==
    /\ catalog = SeedPrices
    /\ nextPriceId = 10
    /\ fee = [r \in Requests |-> IdleCall]
    /\ feeObs = [r \in Requests |-> NoObs]
    /\ couponCache = <<>>
    /\ coupons \in RouteCoupons
    /\ cpn = [r \in Requests |-> IdleCouponCall]
    /\ cpnObs = [r \in Requests |-> NoCouponObs]
    /\ cpnHist = HistAtStart
    /\ BreakdownAtStart
    /\ TimezoneAtStart
    /\ DatesAtStart
    /\ RoutesAtStart

NextRoutes ==
    \/ \E flow \in {"subscription", "one_time"}, couponCode \in RouteCouponCodes,
          desiredStartDate \in RouteStartDates :
           RequestReceived(flow, couponCode, desiredStartDate)
    \/ \E customer \in {"none", "no_default_payment_method", "customer"} :
           CustomerFound(customer)
    \/ \E paymentMethod \in PaymentMethods : PaymentMethodRetrieved(paymentMethod)
    \/ \E price \in RetrievedPrices : SubscriptionPriceRetrieved(price)
    \/ SubscriptionCouponResolved
    \/ FeePricesListed
    \/ FeePriceCreated
    \/ SubscriptionCreated
    \/ PaymentCouponResolved
    \/ \E price \in RetrievedPrices : PaymentPriceRetrieved(price)
    \/ InvoiceCreated
    \/ FeeItemAdded
    \/ InvoicePaid
    \/ StripeCallRejected

SpecRoutes == InitRoutes /\ [][NextRoutes]_vars

-----------------------------------------------------------------------------
(* Claims on the Fee Price Registry, checked under SpecFee *)

InFlightOrDone(r) == fee[r].pc \in {"await_list", "await_create", "done"}

\* the active prices of the fee product that carry the key
ActiveWithKey(key) ==
    { i \in 1..Len(catalog) : /\ catalog[i].product = CREDIT_CARD_FEE_PRODUCT_ID
                               /\ catalog[i].active
                               /\ KeyOfPrice(catalog[i]) = key }

\* C1 as stated: a call made after a call for the same key has returned an
\* identifier, and whose listed page shows that identifier's price, returns that
\* same identifier and issues no create.
C1_SameIdentifierAsFirstCall ==
    \A r \in Requests :
        fee[r].pc = "done" =>
            \A a \in feeObs[r].priorOnPage :
                fee[r].result = Some(a) /\ feeObs[r].createCalls = 0

\* C1 amended: such a call issues no create and returns the identifier of the
\* first price of its listed page that carries the key; that is the earlier
\* call's identifier when no other price with the key is listed on the page.
C1_SecondCallReturnsFirstListedMatch ==
    \A r \in Requests :
        (fee[r].pc = "done" /\ feeObs[r].priorOnPage # {}) =>
            /\ feeObs[r].createCalls = 0
            /\ fee[r].result = Some(feeObs[r].pageMatches[1])
            /\ Len(feeObs[r].pageMatches) = 1 => fee[r].result[1] \in feeObs[r].priorOnPage

C1_Witness ==
    \E r \in Requests :
        /\ fee[r].pc = "done"
        /\ fee[r].calls = 2
        /\ feeObs[r].priorOnPage # {}
        /\ fee[r].result[1] \in feeObs[r].priorOnPage
        /\ feeObs[r].createCalls = 0

\* C2: two calls for the same key that both listed, both missed and both created
\* leave two active prices for that key in the catalog and hold different
\* identifiers.
C2_RacingCallsCreateTwoEntries ==
    \A p \in Requests, q \in Requests :
        ( /\ p # q
          /\ fee[p].pc = "done" /\ fee[q].pc = "done"
          /\ KeyOfCall(p) = KeyOfCall(q)
          /\ feeObs[p].createCalls = 1 /\ feeObs[q].createCalls = 1 ) =>
            /\ fee[p].result # fee[q].result
            /\ \E i \in ActiveWithKey(KeyOfCall(p)), j \in ActiveWithKey(KeyOfCall(p)) :
                   /\ i # j
                   /\ catalog[i].id = fee[p].result[1]
                   /\ catalog[j].id = fee[q].result[1]

\* both callers missed on a full view of the catalog, one while the other had
\* listed and not yet created
C2_Witness ==
    \E p \in Requests, q \in Requests :
        /\ p # q
        /\ fee[p].pc = "done" /\ fee[q].pc = "done"
        /\ fee[p].calls = 1 /\ fee[q].calls = 1
        /\ KeyOfCall(p) = KeyOfCall(q)
        /\ feeObs[p].createCalls = 1 /\ feeObs[q].createCalls = 1
        /\ feeObs[q].raced
        /\ ~feeObs[p].beyondPage /\ ~feeObs[q].beyondPage
        /\ fee[p].result # fee[q].result
        /\ Cardinality(ActiveWithKey(KeyOfCall(p))) = 2

\* C6: a call with feeAmount <= 0 fails with InvalidAmount in the step that
\* makes it, issuing no list and no create and leaving the catalog unchanged.
C6_InvalidAmountBeforeAnyCall ==
    [][ \A r \in Requests :
          (fee'[r].calls = fee[r].calls + 1 /\ fee'[r].feeAmountCents <= 0) =>
              /\ fee'[r].pc = "failed"
              /\ fee'[r].error = Some(InvalidAmount)
              /\ fee'[r].result = None
              /\ feeObs'[r].listCalls = 0
              /\ feeObs'[r].createCalls = 0
              /\ catalog' = catalog ]_vars

C6_Witness ==
    \E r \in Requests, q \in Requests :
        /\ fee[r].pc = "failed" /\ fee[r].kind = "recurring" /\ fee[r].feeAmountCents = 0
        /\ fee[q].pc = "failed" /\ fee[q].kind = "one_time" /\ fee[q].feeAmountCents < 0

\* C7: a call (with feeAmount > 0) issues exactly one list call, and exactly one
\* create call if its listed page holds no price with the requested key, none
\* if it holds one.
C7_OneListAndCreateOnlyOnMiss ==
    \A r \in Requests :
        InFlightOrDone(r) =>
            /\ feeObs[r].listCalls = 1
            /\ fee[r].pc = "await_list" => feeObs[r].createCalls = 0
            /\ fee[r].pc # "await_list" =>
                  feeObs[r].createCalls = IF feeObs[r].pageMatches = <<>> THEN 1 ELSE 0

C7_Witness ==
    \E r \in Requests, q \in Requests :
        /\ fee[r].pc = "done" /\ feeObs[r].createCalls = 0 /\ feeObs[r].pageMatches # <<>>
        /\ fee[q].pc = "done" /\ feeObs[q].createCalls = 1 /\ feeObs[q].pageMatches = <<>>

\* C8: the identifier a call returns is that of a price of the fee product
\* whose currency, unit amount and recurrence shape are exactly the requested
\* ones (an absent interval count meaning 1, one-time meaning no recurrence).
C8_ReturnedPriceCarriesExactKey ==
    \A r \in Requests :
        fee[r].pc = "done" =>
            \E i \in 1..Len(catalog) :
                /\ catalog[i].id = fee[r].result[1]
                /\ catalog[i].product = CREDIT_CARD_FEE_PRODUCT_ID
                /\ catalog[i].currency = BASE_CURRENCY
                /\ catalog[i].unit_amount = fee[r].feeAmountCents
                /\ catalog[i].recurring = KeyOfCall(r).shape

\* an existing price is returned while the listed page also holds prices that
\* differ from the key in the amount by one, in the interval count and in being
\* one-time
C8_Witness ==
    \E r \in Requests :
        /\ fee[r].pc = "done"
        /\ fee[r].kind = "recurring"
        /\ feeObs[r].createCalls = 0
        /\ LET k == KeyOfCall(r)
               page == SubSeq(ListedBy("recurring", catalog), 1,
                              Min(PriceListLimit, Len(ListedBy("recurring", catalog))))
           IN  /\ \E i \in 1..Len(page) : /\ page[i].unit_amount = k.amount
                                          /\ page[i].recurring = None
               /\ \E i \in 1..Len(page) : /\ page[i].unit_amount = k.amount + 1
                                          /\ page[i].recurring = k.shape
               /\ \E i \in 1..Len(page) : /\ page[i].unit_amount = k.amount
                                          /\ page[i].recurring # None
                                          /\ page[i].recurring # k.shape

\* C9: a call whose key is carried by a listed price beyond the first page, and
\* by none on it, issues a create: the catalog then holds a second active price
\* for the key, which is the one returned.
C9_MatchBeyondFirstPageIsDuplicated ==
    \A r \in Requests :
        (fee[r].pc \in {"await_create", "done"}
            /\ feeObs[r].beyondPage /\ feeObs[r].pageMatches = <<>>) =>
            /\ feeObs[r].createCalls = 1
            /\ fee[r].pc = "done" =>
                  /\ Cardinality(ActiveWithKey(KeyOfCall(r))) >= 2
                  /\ fee[r].result[1] >= 10

\* the duplicate is created with no other call in flight or made
C9_Witness ==
    \E r \in Requests :
        /\ fee[r].pc = "done"
        /\ feeObs[r].beyondPage /\ feeObs[r].pageMatches = <<>>
        /\ feeObs[r].createCalls = 1
        /\ Cardinality(ActiveWithKey(KeyOfCall(r))) = 2
        /\ \A q \in Requests \ {r} : fee[q].pc = "idle"

-----------------------------------------------------------------------------
(* Claims on the Coupon Resolver, checked under SpecCoupon *)

\* the code, trimmed and lower-cased, is a key of the static mapping
IsMappedCode(code) ==
    /\ code # None
    /\ ToLowerCase(Trim(code[1])) \in DOMAIN couponMappings

SameCoupon(p, q) ==
    /\ cpn[p].couponId # None
    /\ cpn[p].couponId = cpn[q].couponId

\* C3 as stated: over the whole run the coupon of an id is retrieved from the
\* external catalog at most once.
C3_RetrievedAtMostOncePerId ==
    \A id \in CouponIds : cpnHist.retrieves[id] <= 1

\* C3 amended: once a retrieval of an id has succeeded the id stays cached, and
\* every call for that id (by whichever code) that starts afterwards returns
\* details without an external read; only calls that start before a retrieval
\* of the id has succeeded (concurrent first misses, or a miss after a failed
\* retrieval) issue one, so an id may be retrieved more than once.
C3_NoRetrievalOnceCached ==
    /\ \A id \in cpnHist.fetched : CacheHas(couponCache, id)
    /\ \A r \in Requests :
          (cpn[r].pc # "idle" /\ cpnObs[r].fetchedAtStart) =>
              /\ cpnObs[r].reads = 0
              /\ cpn[r].pc = "done"
              /\ cpn[r].result # None
              /\ cpn[r].result[1].couponId = cpn[r].couponId[1]

\* two different codes of the same id: the second is served from the entry the
\* first one's retrieval cached, the id having been retrieved once
C3_Witness ==
    \E p \in Requests, q \in Requests :
        /\ SameCoupon(p, q)
        /\ ToLowerCase(Trim(cpn[p].couponCode[1])) # ToLowerCase(Trim(cpn[q].couponCode[1]))
        /\ cpn[p].pc = "done" /\ cpnObs[p].reads = 1
        /\ cpn[q].pc = "done" /\ cpnObs[q].reads = 0 /\ cpnObs[q].fetchedAtStart
        /\ cpn[q].result = cpn[p].result
        /\ cpnHist.retrieves[cpn[p].couponId[1]] = 1

\* both calls missed the cache, retrieved the same id and returned
BothRetrieved(p, q) ==
    /\ p # q
    /\ SameCoupon(p, q)
    /\ cpn[p].pc = "done" /\ cpnObs[p].reads = 1
    /\ cpn[q].pc = "done" /\ cpnObs[q].reads = 1

C5_UnmappedCodeReturnsNull ==
    \A r \in Requests :
        (cpn[r].pc # "idle" /\ ~IsMappedCode(cpn[r].couponCode)) =>
            /\ cpn[r].pc = "done"
            /\ cpn[r].result = None
            /\ cpnObs[r].reads = 0
            /\ cpnObs[r].cacheWrites = 0

-----------------------------------------------------------------------------
(* Claims on the Amount Breakdown Calculator, checked under SpecBreakdown *)

\* C10: with couponAmountOff supplied, the breakdown computed with a
\* couponPercent and the one computed without it are equal in every field, and
\* in both the discountAmount is min(couponAmountOff, baseAmount).
C10_FlatDiscountTakesPrecedence ==
    /\ (bdLast # None /\ bdLast[1].options.couponAmountOff # None) =>
          LET amountOff == bdLast[1].options.couponAmountOff[1]
              base == bdLast[1].result.baseAmount
          IN  bdLast[1].result.discountAmount =
                  IF amountOff <= base THEN amountOff ELSE base
    /\ (bdPrev # None /\ bdPrev[1].options.couponAmountOff # None) =>
          bdLast[1].result = bdPrev[1].result

\* both calls made, for a percent whose own discount differs from the flat one
C10_Witness ==
    /\ bdPrev # None
    /\ bdPrev[1].options.couponAmountOff # None
    /\ bdPrev[1].options.couponPercent = Some(50)
    /\ bdLast[1].options.couponPercent = None
    /\ bdPrev[1].options.baseAmount = Some(100)
    /\ bdPrev[1].options.couponAmountOff[1] > 100
    /\ bdLast[1].result.discountAmount = 100
    /\ bdLast[1].result = bdPrev[1].result

\* the options inside the calculator's contract: a percent in 0..100 when one is
\* supplied, and no negative amount
InContract(options) ==
    /\ options.couponPercent # None => options.couponPercent[1] \in 0..100
    /\ options.couponAmountOff # None => options.couponAmountOff[1] >= 0
    /\ options.baseAmount # None => options.baseAmount[1] >= 0
    /\ options.shippingAmount # None => options.shippingAmount[1] >= 0

\* C11: for options inside the contract, the six fields of the breakdown are
\* non-negative integers, subtotalAfterDiscount is max(baseAmount -
\* discountAmount, 0), totalAmount is the sum of subtotal, shipping and fee,
\* discountAmount <= baseAmount and totalAmount >= shippingAmount.
C11_BreakdownWellFormed ==
    (bdLast # None /\ InContract(bdLast[1].options)) =>
        LET b == bdLast[1].result
        IN  /\ \A f \in DOMAIN b : b[f] \in Nat
            /\ DOMAIN b = {"baseAmount", "discountAmount", "subtotalAfterDiscount",
                           "shippingAmount", "creditCardFeeAmount", "totalAmount"}
            /\ b.subtotalAfterDiscount =
                   (IF b.baseAmount - b.discountAmount >= 0
                    THEN b.baseAmount - b.discountAmount ELSE 0)
            /\ b.totalAmount =
                   b.subtotalAfterDiscount + b.shippingAmount + b.creditCardFeeAmount
            /\ b.discountAmount <= b.baseAmount
            /\ b.totalAmount >= b.shippingAmount

\* a flat discount larger than the base, capped: nothing is left but shipping
C11_Witness ==
    /\ bdLast # None
    /\ InContract(bdLast[1].options)
    /\ bdLast[1].options.baseAmount = Some(100)
    /\ bdLast[1].options.couponAmountOff = Some(125)
    /\ bdLast[1].options.appliesCreditCardFee
    /\ bdLast[1].options.shippingAmount = Some(500)
    /\ bdLast[1].result.discountAmount = 100
    /\ bdLast[1].result.subtotalAfterDiscount = 0
    /\ bdLast[1].result.totalAmount = 500

\* C12: with only a couponPercent in 0..100 supplied, discountAmount is
\* baseAmount * percent / 100 rounded to the nearest integer, a tie rounded up
\* (d - 1/2 <= base * percent / 100 < d + 1/2), and discountAmount <= baseAmount.
C12_PercentDiscountRoundsHalfUp ==
    (/\ bdLast # None
     /\ bdLast[1].options.couponAmountOff = None
     /\ bdLast[1].options.couponPercent # None
     /\ bdLast[1].options.couponPercent[1] \in 0..100) =>
        LET base == bdLast[1].result.baseAmount
            x == base * bdLast[1].options.couponPercent[1]
            d == bdLast[1].result.discountAmount
        IN  /\ 100 * d - 50 <= x
            /\ x < 100 * d + 50
            /\ d <= base

\* a tie: 50 percent of 25 is 12.5, and the discount is 13
C12_Witness ==
    /\ bdLast # None
    /\ bdLast[1].options.couponAmountOff = None
    /\ bdLast[1].options.couponPercent = Some(50)
    /\ bdLast[1].options.baseAmount = Some(25)
    /\ bdLast[1].result.discountAmount = 13

\* C13: creditCardFeeAmount is percentageToAmount(subtotalAfterDiscount,
\* CREDIT_CARD_FEE_PERCENT) when the fee applies and 0 when it does not;
\* shippingAmount is the one supplied (or the default) and is only added into
\* totalAmount: computed again with another shippingAmount, the breakdown has
\* the same discount, subtotal and fee.  Base 5000, no coupon, shipping 500 and
\* the fee applying give 0, 5000, 500, 150 and 5650.
C13_FeeOnSubtotalShippingOnlyAdded ==
    /\ bdLast # None =>
          LET o == bdLast[1].options
              b == bdLast[1].result
          IN  /\ b.creditCardFeeAmount =
                     (IF o.appliesCreditCardFee
                      THEN PercentageToAmount(b.subtotalAfterDiscount,
                                              CREDIT_CARD_FEE_PERCENT)
                      ELSE 0)
              /\ b.shippingAmount = Default(o.shippingAmount, SHIPPING_COST_CENTS)
              /\ b.totalAmount - b.shippingAmount =
                     b.subtotalAfterDiscount + b.creditCardFeeAmount
              /\ (/\ Default(o.baseAmount, ONE_TIME_BASE_AMOUNT_CENTS) = 5000
                  /\ o.couponPercent = None
                  /\ o.couponAmountOff = None
                  /\ o.shippingAmount = Some(500)
                  /\ o.appliesCreditCardFee) =>
                     b = Breakdown(5000, 0, 5000, 500, 150, 5650)
    /\ bdShip # None =>
          /\ bdLast[1].result.discountAmount = bdShip[1].result.discountAmount
          /\ bdLast[1].result.subtotalAfterDiscount =
                 bdShip[1].result.subtotalAfterDiscount
          /\ bdLast[1].result.creditCardFeeAmount =
                 bdShip[1].result.creditCardFeeAmount
          /\ bdLast[1].result.baseAmount = bdShip[1].result.baseAmount

\* a discounted base whose fee differs from the fee of the undiscounted base,
\* computed with shipping 7 and again with shipping 500
C13_Witness ==
    /\ bdShip # None
    /\ bdShip[1].options.baseAmount = Some(100)
    /\ bdShip[1].options.couponAmountOff = Some(50)
    /\ bdShip[1].options.appliesCreditCardFee
    /\ bdShip[1].options.shippingAmount = Some(7)
    /\ bdLast[1].options.shippingAmount = Some(500)
    /\ bdLast[1].result.creditCardFeeAmount = 2
    /\ PercentageToAmount(100, CREDIT_CARD_FEE_PERCENT) = 3
    /\ bdLast[1].result.totalAmount = 552
    /\ bdShip[1].result.totalAmount = 59

\* the scenario of C13: base 5000, no coupon, shipping 500, the fee applying
C13_Scenario ==
    /\ bdLast # None
    /\ bdLast[1].options = [couponPercent |-> None, couponAmountOff |-> None,
                            appliesCreditCardFee |-> TRUE,
                            shippingAmount |-> Some(500), baseAmount |-> None]
    /\ bdLast[1].result = Breakdown(5000, 0, 5000, 500, 150, 5650)

-----------------------------------------------------------------------------
(* Claims on the Timezone Resolver, checked under SpecTimezone *)

\* two strings equal up to letter case
SameIgnoringCase(a, b) == ToLowerCase(a) = ToLowerCase(b)

Missing(str) == str = None \/ str[1] = <<>>

TimezoneAddress(country, state) == [country |-> country, state |-> state]

\* C15: the resolver always returns an identifier, in this order: "UTC" for a
\* missing or empty country; the state's entry for country US and a state of
\* the state table; else the country's entry of the country table; else "UTC";
\* country and state are matched whatever their letter case.  US/AZ gives
\* America/Phoenix, us/ca America/Los_Angeles, FR Europe/Paris, XX and a
\* missing country UTC.
C15_DecisionOrder ==
    tzLast # None =>
        LET a == tzLast[1].address
            result == tzLast[1].result
            stateKeys == IF Missing(a.country) \/ Missing(a.state) THEN {}
                         ELSE { k \in DOMAIN US_STATE_TIMEZONES :
                                  /\ SameIgnoringCase(a.country[1], <<"U", "S">>)
                                  /\ SameIgnoringCase(a.state[1], k) }
            countryKeys == IF Missing(a.country) THEN {}
                           ELSE { k \in DOMAIN COUNTRY_DEFAULT_TIMEZONES :
                                    SameIgnoringCase(a.country[1], k) }
        IN  /\ result \in {US_STATE_TIMEZONES[k] : k \in DOMAIN US_STATE_TIMEZONES}
                    \cup {COUNTRY_DEFAULT_TIMEZONES[k] :
                              k \in DOMAIN COUNTRY_DEFAULT_TIMEZONES}
                    \cup {"UTC"}
            /\ Missing(a.country) => result = "UTC"
            /\ \A k \in stateKeys : result = US_STATE_TIMEZONES[k]
            /\ stateKeys = {} =>
                  /\ \A k \in countryKeys : result = COUNTRY_DEFAULT_TIMEZONES[k]
                  /\ countryKeys = {} => result = "UTC"
            /\ a = TimezoneAddress(Some(<<"U", "S">>), Some(<<"A", "Z">>)) =>
                  result = "America/Phoenix"
            /\ a = TimezoneAddress(Some(<<"u", "s">>), Some(<<"c", "a">>)) =>
                  result = "America/Los_Angeles"
            /\ a.country = Some(<<"F", "R">>) => result = "Europe/Paris"
            /\ a.country = Some(<<"X", "X">>) => result = "UTC"
            /\ a.country = None => result = "UTC"

\* us/ca resolved to the state's identifier, not to the US default
C15_Witness ==
    /\ tzLast # None
    /\ tzLast[1].address = TimezoneAddress(Some(<<"u", "s">>), Some(<<"c", "a">>))
    /\ tzLast[1].result = "America/Los_Angeles"
    /\ COUNTRY_DEFAULT_TIMEZONES[<<"U", "S">>] # tzLast[1].result

\* US with a state the table does not know: the US default
C15_UnrecognizedStateWitness ==
    /\ tzLast # None
    /\ tzLast[1].address = TimezoneAddress(Some(<<"U", "s">>), Some(<<"Z", "Z">>))
    /\ tzLast[1].result = "America/New_York"

\* the 50 states and Puerto Rico
StatesAndPuertoRico == PostalCodes \ {<<"D", "C">>}

\* C16: for country US and each postal code of the 50 states and of Puerto
\* Rico, the state table has an entry for the code and the resolver returns it.
C16_EveryStateHasAnEntry ==
    (/\ tzLast # None
     /\ tzLast[1].address.country = Some(<<"U", "S">>)
     /\ tzLast[1].address.state # None
     /\ tzLast[1].address.state[1] \in StatesAndPuertoRico) =>
        /\ tzLast[1].address.state[1] \in DOMAIN US_STATE_TIMEZONES
        /\ tzLast[1].result = US_STATE_TIMEZONES[tzLast[1].address.state[1]]

\* the states whose code has an entry are resolved to it
C16_ListedStatesResolved ==
    (/\ tzLast # None
     /\ tzLast[1].address.country = Some(<<"U", "S">>)
     /\ tzLast[1].address.state # None
     /\ tzLast[1].address.state[1] \in DOMAIN US_STATE_TIMEZONES) =>
        tzLast[1].result = US_STATE_TIMEZONES[tzLast[1].address.state[1]]

\* Wyoming, resolved to the US default for lack of an entry
C16_MissingStateWitness ==
    /\ tzLast # None
    /\ tzLast[1].address = TimezoneAddress(Some(<<"U", "S">>), Some(<<"W", "Y">>))
    /\ <<"W", "Y">> \notin DOMAIN US_STATE_TIMEZONES
    /\ tzLast[1].result = COUNTRY_DEFAULT_TIMEZONES[<<"U", "S">>]

-----------------------------------------------------------------------------
(* Claims on the Start Date Window, checked under SpecDates *)

DaysInMonth(year, month) ==
    IF month = 1 THEN (IF InLeapYear(year) THEN 29 ELSE 28)
    ELSE IF month \in {3, 5, 8, 10} THEN 30 ELSE 31

\* a string YYYY-MM-DD naming a day of the calendar
IsCalendarDate(str) ==
    /\ Len(str) = 10
    /\ str[5] = "-"
    /\ str[8] = "-"
    /\ \A i \in {1, 2, 3, 4, 6, 7, 9, 10} : IsDigit(str[i])
    /\ ToNumber(SubSeq(str, 6, 7)) \in 1..12
    /\ ToNumber(SubSeq(str, 9, 10)) \in
           1..DaysInMonth(ToNumber(SubSeq(str, 1, 4)), ToNumber(SubSeq(str, 6, 7)) - 1)

\* calendar readings <<year, month, day, hour>> and their order
MidnightOf(str) ==
    <<ToNumber(SubSeq(str, 1, 4)), ToNumber(SubSeq(str, 6, 7)) - 1,
      ToNumber(SubSeq(str, 9, 10)), 0>>

ReadingOf(now) == <<now.year, now.month, now.date, now.hour>>

NotAfter(a, b) ==
    \/ a = b
    \/ \E i \in 1..4 : a[i] < b[i] /\ \A j \in 1..(i - 1) : a[j] = b[j]

\* now advanced by two calendar months: the same day of the month two months
\* on, or, when that month is too short, as many days into the month after it
\* as the day exceeds its length
TwoMonthsAfter(now) ==
    LET year == now.year + (IF now.month + 2 > 11 THEN 1 ELSE 0)
        month == (now.month + 2) % 12
        length == DaysInMonth(year, month)
    IN  IF now.date <= length THEN <<year, month, now.date, now.hour>>
        ELSE <<year + (IF month = 11 THEN 1 ELSE 0), (month + 1) % 12,
               now.date - length, now.hour>>

\* C17: the result is false for a missing, empty or unparsable value, and for a
\* calendar date it is true exactly when now <= the date's midnight <= now
\* advanced by two calendar months (day of the month kept, running into the
\* following month when the target month is shorter); at 2024-01-15,
\* "2024-02-01" is accepted and "2024-04-01" and "2023-12-01" are rejected.
C17_WithinTwoCalendarMonths ==
    dtLast # None =>
        LET value == dtLast[1].value
            now == dtLast[1].now
            result == dtLast[1].result
        IN  /\ Missing(value) => ~result
            /\ (~Missing(value) /\ ~IsCalendarDate(value[1])) => ~result
            /\ (~Missing(value) /\ IsCalendarDate(value[1])) =>
                  (result <=> /\ NotAfter(ReadingOf(now), MidnightOf(value[1]))
                              /\ NotAfter(MidnightOf(value[1]), TwoMonthsAfter(now)))
            /\ (now.year = 2024 /\ now.month = 0 /\ now.date = 15) =>
                  /\ value = Some(<<"2", "0", "2", "4", "-", "0", "2", "-", "0", "1">>) => result
                  /\ value = Some(<<"2", "0", "2", "4", "-", "0", "4", "-", "0", "1">>) => ~result
                  /\ value = Some(<<"2", "0", "2", "3", "-", "1", "2", "-", "0", "1">>) => ~result

\* at noon of 2023-12-31 the window ends at noon of 2024-03-02 (February 2024
\* has 29 days): 2024-03-02 is accepted, 61 days after now
C17_Witness ==
    /\ dtLast # None
    /\ dtLast[1].now = Clock(2023, 11, 31, 12)
    /\ dtLast[1].value = Some(<<"2", "0", "2", "4", "-", "0", "3", "-", "0", "2">>)
    /\ dtLast[1].result
    /\ TwoMonthsAfter(dtLast[1].now) = <<2024, 2, 2, 12>>

\* at 2024-01-15 the date 2024-04-01 is rejected
C17_RejectedWitness ==
    /\ dtLast # None
    /\ dtLast[1].now = Clock(2024, 0, 15, 12)
    /\ dtLast[1].value = Some(<<"2", "0", "2", "4", "-", "0", "4", "-", "0", "1">>)
    /\ ~dtLast[1].result

-----------------------------------------------------------------------------
(* Claims on a failing coupon fetch, checked under SpecCoupon *)

\* a call whose fetch failed threw: it holds an error and no result
FailedCallsThrew ==
    \A r \in Requests :
        cpn[r].pc = "failed" => cpn[r].error # None /\ cpn[r].result = None

CacheKeysAreMappedIds ==
    DOMAIN couponCache \subseteq {couponMappings[code] : code \in DOMAIN couponMappings}

\* C20: a failing fetch throws to the caller and stores nothing, so the first
\* call made for the same id after the failure issues a fetch of its own; the
\* cache holds only ids of the static mapping.
C20_NextCallFetchesAfterFailure ==
    /\ FailedCallsThrew
    /\ CacheKeysAreMappedIds
    /\ \A r \in Requests : cpnObs[r].afterFailure => cpnObs[r].reads = 1

\* the step of caller r in which its fetch is answered
FetchAnswered(r) == cpn[r].pc = "await_retrieve" /\ cpn'[r].pc # "await_retrieve"

\* C20 (amended): a failing fetch throws to the caller and leaves the cache as
\* it was; the first call made for the same id after the failure issues a fetch
\* of its own unless the id is in the cache by then, stored by the successful
\* fetch of another call; the cache holds only ids of the static mapping, a
\* successful fetch writes the entry of its own id only, and no step removes an
\* entry.
C20_FailedFetchStoresNothing ==
    /\ [](/\ FailedCallsThrew
          /\ CacheKeysAreMappedIds
          /\ \A r \in Requests :
                cpnObs[r].afterFailure =>
                    cpnObs[r].reads = 1 \/ cpnObs[r].fetchedAtStart)
    /\ [][/\ DOMAIN couponCache \subseteq DOMAIN couponCache'
          /\ \A r \in Requests :
                FetchAnswered(r) =>
                    \/ /\ cpn'[r].pc = "failed"
                       /\ cpn'[r].error # None
                       /\ cpn'[r].result = None
                       /\ couponCache' = couponCache
                    \/ /\ cpn'[r].pc = "done"
                       /\ cpn'[r].result # None
                       /\ \A id \in DOMAIN couponCache :
                              id # cpn[r].couponId[1] =>
                                  couponCache'[id] = couponCache[id]
          /\ (\A r \in Requests : ~FetchAnswered(r)) => couponCache' = couponCache
         ]_vars

\* a fetch of cpn_A failed while cpn_B was cached; the next call for cpn_A
\* fetched it and stored it, the entry of cpn_B as it was
C20_Witness ==
    \E r \in Requests :
        /\ cpnObs[r].afterFailure
        /\ cpnObs[r].reads = 1
        /\ ~cpnObs[r].fetchedAtStart
        /\ cpn[r].pc = "done"
        /\ cpn[r].couponId = Some("cpn_A")
        /\ DOMAIN couponCache = {"cpn_A", "cpn_B"}

\* the first call after a failed fetch of an id answered from the cache
C20_CachedMeanwhileWitness ==
    \E r \in Requests :
        /\ cpnObs[r].afterFailure
        /\ cpnObs[r].reads = 0
        /\ cpn[r].pc = "done"
        /\ cpn[r].result # None

-----------------------------------------------------------------------------
(* Claims on the checkout routes, checked under SpecRoutes *)

\* the fee of the request has been computed
FeeComputed == rt.creditCardFeeAmount # None

Contains(seq, x) == \E i \in 1..Len(seq) : seq[i] = x

\* C14: in both routes, for a payment method whose funding is anything but
\* credit (debit, prepaid, unknown, absent, or not a card) the fee is 0 and the
\* fee price registry is not called.
C14_FeeOnlyForCreditFunding ==
    (rt.pc # "idle" /\ (rt.paymentMethod = None
                          \/ rt.paymentMethod[1].funding # Some("credit"))) =>
        /\ FeeComputed => rt.creditCardFeeAmount[1] = 0
        /\ rt.registryCalls = <<>>
        /\ ~Contains(rt.items, "fee")

\* for debit and prepaid cards, and for methods that are no cards, it is so
C14_NoFeeForDebitAndPrepaid ==
    (rt.pc # "idle" /\ (rt.paymentMethod = None
                          \/ rt.paymentMethod[1].funding \in
                                 {Some("debit"), Some("prepaid")})) =>
        /\ FeeComputed => rt.creditCardFeeAmount[1] = 0
        /\ rt.registryCalls = <<>>
        /\ ~Contains(rt.items, "fee")

\* a card of unknown funding charged the fee of 3 percent of 5000, in either
\* route, the registry called for it
C14_UnknownFundingCharged ==
    /\ rt.pc = "responded"
    /\ rt.status = 200
    /\ rt.paymentMethod # None
    /\ rt.paymentMethod[1].funding \in {None, Some("unknown")}
    /\ rt.couponDetails = None
    /\ rt.creditCardFeeAmount = Some(150)
    /\ Len(rt.registryCalls) = 1
    /\ Contains(rt.items, "fee")

\* the breakdown the calculator gives for the plan amount and the coupon of the
\* subscription request
BreakdownOfSubscription ==
    ComputeOneTimeBreakdown(
        [couponPercent |-> PercentOff(rt.couponDetails),
         couponAmountOff |-> AmountOff(rt.couponDetails),
         appliesCreditCardFee |-> rt.creditFunding,
         shippingAmount |-> None,
         baseAmount |-> Some(rt.price[1].unit_amount)])

FlatAmountInBaseCurrency ==
    AmountOff(rt.couponDetails) # None =>
        rt.couponDetails[1].currency = Some(BASE_CURRENCY)

\* C18: for every plan amount and every coupon (a percent, a flat amount in the
\* base currency, or both), the discount, the discounted plan amount and the
\* fee the subscription route computes equal discountAmount,
\* subtotalAfterDiscount and creditCardFeeAmount of the calculator.
C18_SubscriptionMatchesBreakdown ==
    (rt.flow = "subscription" /\ FeeComputed /\ FlatAmountInBaseCurrency) =>
        /\ rt.effectiveCouponAmount = BreakdownOfSubscription.discountAmount
        /\ rt.discountedPlanAmount = BreakdownOfSubscription.subtotalAfterDiscount
        /\ rt.creditCardFeeAmount[1] = BreakdownOfSubscription.creditCardFeeAmount

\* for a coupon carrying one of the two, or none, they are equal
C18_MatchesForOneKind ==
    (/\ rt.flow = "subscription" /\ FeeComputed /\ FlatAmountInBaseCurrency
     /\ ~(Truthy(PercentOff(rt.couponDetails)) /\ AmountOff(rt.couponDetails) # None)) =>
        /\ rt.effectiveCouponAmount = BreakdownOfSubscription.discountAmount
        /\ rt.discountedPlanAmount = BreakdownOfSubscription.subtotalAfterDiscount
        /\ rt.creditCardFeeAmount[1] = BreakdownOfSubscription.creditCardFeeAmount

\* a coupon of 10 percent and 2000 off a plan of 5000: the route takes 500 off,
\* the calculator 2000
C18_PercentWinsInSubscription ==
    /\ rt.flow = "subscription"
    /\ FeeComputed
    /\ rt.price[1].unit_amount = 5000
    /\ PercentOff(rt.couponDetails) = Some(10)
    /\ AmountOff(rt.couponDetails) = Some(2000)
    /\ rt.effectiveCouponAmount = 500
    /\ BreakdownOfSubscription.discountAmount = 2000

\* the request has come to the point where its route calls the registry or
\* goes on without it
PastFeeGuard ==
    /\ FeeComputed
    /\ rt.pc \in {"await_fee_list", "await_fee_create", "await_fee_item",
                  "await_subscription", "await_payment"}
       \/ (rt.pc = "responded" /\ rt.status = 200)

\* C19: in both routes the registry is called exactly when the computed fee is
\* positive, with that fee as its amount (and the variant of the route); the
\* registry's "Fee amount must be greater than 0" is never thrown; and a fee
\* item is attached exactly when the fee is positive.
C19_RegistryCalledIffFeePositive ==
    /\ rt.error # Some(InvalidAmount)
    /\ Len(rt.registryCalls) <= 1
    /\ \A i \in 1..Len(rt.registryCalls) :
          /\ FeeComputed
          /\ rt.registryCalls[i].feeAmountCents = rt.creditCardFeeAmount[1]
          /\ rt.registryCalls[i].feeAmountCents > 0
          /\ rt.registryCalls[i].kind =
                 (IF rt.flow = "subscription" THEN "recurring" ELSE "one_time")
    /\ (FeeComputed /\ rt.creditCardFeeAmount[1] = 0) =>
          /\ rt.registryCalls = <<>>
          /\ rt.feePriceId = None
          /\ ~Contains(rt.items, "fee")
    /\ (PastFeeGuard /\ rt.creditCardFeeAmount[1] > 0) => Len(rt.registryCalls) = 1
    /\ (rt.pc = "responded" /\ rt.status = 200) =>
          (Contains(rt.items, "fee") <=> rt.creditCardFeeAmount[1] > 0)

\* a credit card and a coupon of 100 percent: the fee is 0, the subscription is
\* created with the plan alone and the registry was not called
C19_Witness ==
    /\ rt.pc = "responded"
    /\ rt.status = 200
    /\ rt.flow = "subscription"
    /\ rt.creditFunding
    /\ PercentOff(rt.couponDetails) = Some(100)
    /\ rt.creditCardFeeAmount = Some(0)
    /\ rt.registryCalls = <<>>
    /\ rt.items = <<"plan">>

\* a one-time payment with a positive fee: the registry called with it, the
\* fee item attached
C19_FeeItemWitness ==
    /\ rt.pc = "responded"
    /\ rt.status = 200
    /\ rt.flow = "one_time"
    /\ rt.creditCardFeeAmount = Some(150)
    /\ rt.registryCalls = << [kind |-> "one_time", feeAmountCents |-> 150,
                              recurring |-> None] >>
    /\ rt.items = <<"product", "fee">>

\* a one-time payment answered with its response
PaymentAnswered ==
    /\ rt.flow = "one_time"
    /\ rt.pc = "responded"
    /\ rt.status = 200
    /\ rt.response # None

\* the flat amount the breakdown of the request was computed with
FlatAmountUsed == OneTimeOptions(rt, rt.price[1].unit_amount).couponAmountOff

\* C21: in the one-time route a flat amountOff enters the breakdown only when
\* the coupon's currency is the base currency, so the response's coupon agrees
\* with the discount applied: when coupon.amountOff and coupon.percentOff of
\* the response are both null the breakdown's discountAmount is 0, and when a
\* flat amount was used for the breakdown the response's coupon.amountOff is
\* that amount.
C21_ResponseCouponMatchesDiscount ==
    PaymentAnswered =>
        /\ FlatAmountUsed # None =>
               rt.couponDetails[1].currency = Some(BASE_CURRENCY)
        /\ (/\ rt.response[1].coupon.amountOff = None
            /\ rt.response[1].coupon.percentOff = None) =>
               rt.breakdown[1].discountAmount = 0
        /\ FlatAmountUsed # None =>
               rt.response[1].coupon.amountOff = FlatAmountUsed

\* for a coupon whose flat amount is in the base currency, a percent coupon,
\* or no coupon, the response's coupon agrees with the discount applied
C21_ConsistentInBaseCurrency ==
    (PaymentAnswered /\ FlatAmountInBaseCurrency) =>
        /\ (/\ rt.response[1].coupon.amountOff = None
            /\ rt.response[1].coupon.percentOff = None) =>
               rt.breakdown[1].discountAmount = 0
        /\ FlatAmountUsed # None =>
               rt.response[1].coupon.amountOff = FlatAmountUsed

\* a coupon of 2000 eur on a price of 5000 usd: 2000 is taken off and the
\* amount charged follows from 3000, while the response reports no coupon
C21_ForeignFlatAmountApplied ==
    /\ PaymentAnswered
    /\ rt.price[1].unit_amount = 5000
    /\ rt.couponDetails # None
    /\ rt.couponDetails[1].amountOff = Some(2000)
    /\ rt.couponDetails[1].currency = Some("eur")
    /\ rt.breakdown[1].discountAmount = 2000
    /\ rt.breakdown[1].subtotalAfterDiscount = 3000
    /\ rt.response[1].amount =
           3000 + rt.breakdown[1].shippingAmount + rt.breakdown[1].creditCardFeeAmount
    /\ rt.response[1].coupon = [percentOff |-> None, amountOff |-> None]

=============================================================================
